---- MODULE Spec2Model ----
(***************************************************************************)
(* KEDB backend: the entry workflow state machine and the write-then-      *)
(* propagate sequence of the entry and solution services                   *)
(* (backend/app/services/entry_service.py, solution_service.py) against    *)
(* the entity store (repositories) and the search index (Meilisearch).     *)
(*                                                                         *)
(* A request is a coroutine: every `await` of a store or index call is a   *)
(* suspension point, so a handler is a chain of steps, one per awaited     *)
(* call, and the synchronous code after the call belongs to that step.     *)
(* Requests are served one at a time unless a specification sets          *)
(* `workers` to 2, when the steps of two requests interleave. The search   *)
(* endpoints and the index client (api/v1/endpoints/search.py,             *)
(* search/meilisearch_client.py) are modelled as well.                     *)
(***************************************************************************)
EXTENDS Integers, Sequences, FiniteSets, TLC

\* ------------------------------------------------------------------ bounds
MaxEntries == 1
MaxSolutions == 1
\* rows (symptoms, steps) of an entity handed to a document builder
MaxDocRows == 2
\* fields of a filters dict handed to the search client
MaxFilters == 2

\* ------------------------------------------------------------ value domains
None == "None"
Titles == {"t1", "t2"}
Users == {"alice"}
SymptomTexts == {"disk full"}
OrderIndexes == {0}
IncidentRefs == {"INC-1"}
\* the coroutines of the server, in the order in which requests are handed to them
ProcOrder == <<"p1", "p2">>
Procs == {ProcOrder[i] : i \in DOMAIN ProcOrder}
EntryIds == 1..MaxEntries
SolutionIds == 1..MaxSolutions
StepActions == {"restart"}
StepResults == {None}

NoRow == [absent |-> TRUE]
Gone == [deleted |-> TRUE]
NoArg == [none |-> TRUE]
AttributeError == [raised |-> "AttributeError"]

WorkflowState == {"draft", "in_review", "published", "retired", "merged"}

\* The workflow_state a caller's create payload may carry.
InputStates == {None, "published"}

\* ---------------------------------------------------------------- the state
VARIABLES
  entries,         \* table entries: EntryIds -> row or NoRow
  entry_symptoms,  \* table entry_symptoms: sequence of rows, in insertion order
  entry_incidents, \* table entry_incidents: sequence of rows
  solutions,       \* table solutions: SolutionIds -> row, NoRow (never used) or Gone (deleted)
  solution_steps,  \* table solution_steps: sequence of rows
  entriesIndex,    \* search index "entries": a set of documents, keyed by id
  solutionsIndex,  \* search index "solutions"
  req,             \* per coroutine: the request it runs and where it is
  pre,             \* per coroutine: store and index as they were when its request began
  prev,            \* history: the request completed just before, while the next repeats it
  storeFaults,     \* whether store writes may fail in this run (fixed by Init)
  indexFaults,     \* whether index calls may fail in this run (fixed by Init)
  workers,         \* how many requests are in flight at a time in this run (fixed by Init)
  indexes          \* the index service's indexes: name -> NoIndex or primary key and settings

vars == <<entries, entry_symptoms, entry_incidents, solutions, solution_steps,
          entriesIndex, solutionsIndex, req, pre, prev, storeFaults, indexFaults, workers, indexes>>
entryVars == <<entries, entry_symptoms, entry_incidents>>
solutionVars == <<solutions, solution_steps>>
storeVars == <<entryVars, solutionVars>>
indexVars == <<entriesIndex, solutionsIndex>>

\* ------------------------------------------------------------ small helpers
InList(x, list) == \E i \in DOMAIN list : list[i] = x

SeqsUpTo(S, n) == UNION {[1..k -> S] : k \in 0..n}

\* the lists over S no two of whose elements agree on `key`
DistinctSeqs(S, key) ==
  {l \in SeqsUpTo(S, Cardinality(S)) : \A i, j \in DOMAIN l : l[i][key] = l[j][key] => i = j}

\* whether table holds a row of entry_id with row[key] = value
HasRow(table, entry_id, key, value) ==
  \E i \in DOMAIN table : table[i].entry_id = entry_id /\ table[i][key] = value

RECURSIVE SelectRows(_, _, _)
\* the rows of `table` with table[i][field] = value, table order kept
SelectRows(table, field, value) ==
  IF table = <<>> THEN <<>>
  ELSE LET rest == SelectRows(Tail(table), field, value)
       IN IF Head(table)[field] = value THEN <<Head(table)>> \o rest ELSE rest

RECURSIVE SortByOrderIndex(_)
\* stable insertion sort on order_index
SortByOrderIndex(rows) ==
  IF rows = <<>> THEN <<>>
  ELSE LET r == rows[Len(rows)]
           front == SortByOrderIndex(SubSeq(rows, 1, Len(rows) - 1))
           le == SelectSeq(front, LAMBDA x : x.order_index <= r.order_index)
           gt == SelectSeq(front, LAMBDA x : x.order_index > r.order_index)
       IN le \o <<r>> \o gt

RECURSIVE join(_, _)
\* sep.join(list)
join(sep, list) ==
  IF list = <<>> THEN ""
  ELSE IF Len(list) = 1 THEN list[1]
  ELSE list[1] \o sep \o join(sep, Tail(list))

Store == [entries |-> entries, entry_symptoms |-> entry_symptoms,
          entry_incidents |-> entry_incidents, solutions |-> solutions,
          solution_steps |-> solution_steps, entriesIndex |-> entriesIndex,
          solutionsIndex |-> solutionsIndex, indexes |-> indexes]

Call(to, fn, args, ok) == [to |-> to, fn |-> fn, args |-> args, ok |-> ok]

StoreOutcomes == IF storeFaults THEN {TRUE, FALSE} ELSE {TRUE}
\* the outcomes an index call can have: the request reaches the index service or fails
IndexOutcomes == IF indexFaults THEN {TRUE, FALSE} ELSE {TRUE}

\* ------------------------------------------------------ EntryRepository
\* next free primary key (uuid4: never one in use)
NewEntryId == CHOOSE i \in EntryIds : entries[i] = NoRow /\ \A j \in 1..(i - 1) : entries[j] # NoRow

repo_get(entry_id) == entries[entry_id]

repo_get_with_relations(entry_id) ==
  IF entries[entry_id] = NoRow THEN NoRow
  ELSE [id |-> entry_id,
        title |-> entries[entry_id].title,
        workflow_state |-> entries[entry_id].workflow_state,
        created_by |-> entries[entry_id].created_by,
        merged_into_id |-> entries[entry_id].merged_into_id,
        symptoms |-> SortByOrderIndex(SelectRows(entry_symptoms, "entry_id", entry_id)),
        incidents |-> SelectRows(entry_incidents, "entry_id", entry_id)]

SymptomRow(entry_id, s) == [entry_id |-> entry_id, description |-> s.description, order_index |-> s.order_index]

IncidentRow(entry_id, i) == [entry_id |-> entry_id, incident_id |-> i.incident_id]

repo_create_with_symptoms(data_dict, symptoms) ==
  /\ entries' = [entries EXCEPT ![NewEntryId] =
                   [title |-> data_dict.title, workflow_state |-> data_dict.workflow_state,
                    created_by |-> data_dict.created_by, merged_into_id |-> None]]
  /\ entry_symptoms' = IF symptoms.is_none THEN entry_symptoms
                       ELSE entry_symptoms \o [i \in DOMAIN symptoms.list |->
                                                 SymptomRow(NewEntryId, symptoms.list[i])]

\* update-fields: the columns named by data_dict are overwritten
repo_update(entry_id, data_dict) ==
  entries' = [entries EXCEPT ![entry_id] =
                [f \in DOMAIN entries[entry_id] |->
                   IF f \in DOMAIN data_dict THEN data_dict[f] ELSE entries[entry_id][f]]]

\* update-workflow-state: approved_by goes into the same write's bookkeeping, which
\* is no column of Entry (models/entry.py)
repo_update_workflow_state(entry_id, new_state, approved_by) ==
  entries' = [entries EXCEPT ![entry_id].workflow_state = new_state]

repo_add_symptom(entry_id, s) == entry_symptoms' = Append(entry_symptoms, SymptomRow(entry_id, s))

repo_add_incident(entry_id, i) == entry_incidents' = Append(entry_incidents, IncidentRow(entry_id, i))

\* ------------------------------------------------------ SolutionRepository
\* next primary key (uuid4: never one that was ever used)
NewSolutionId == CHOOSE i \in SolutionIds : solutions[i] = NoRow /\ \A j \in 1..(i - 1) : solutions[j] # NoRow

sol_repo_get(solution_id) == IF solutions[solution_id] = Gone THEN NoRow ELSE solutions[solution_id]

sol_repo_get_with_steps(solution_id) ==
  IF sol_repo_get(solution_id) = NoRow THEN NoRow
  ELSE [id |-> solution_id,
        entry_id |-> solutions[solution_id].entry_id,
        title |-> solutions[solution_id].title,
        created_by |-> solutions[solution_id].created_by,
        steps |-> SortByOrderIndex(SelectRows(solution_steps, "solution_id", solution_id))]

StepRow(solution_id, s) ==
  [solution_id |-> solution_id, order_index |-> s.order_index, action |-> s.action,
   expected_result |-> s.expected_result]

sol_repo_create_with_steps(data_dict, steps) ==
  /\ solutions' = [solutions EXCEPT ![NewSolutionId] =
                     [entry_id |-> data_dict.entry_id, title |-> data_dict.title,
                      created_by |-> data_dict.created_by]]
  /\ solution_steps' = IF steps.is_none THEN solution_steps
                       ELSE solution_steps \o [i \in DOMAIN steps.list |->
                                                 StepRow(NewSolutionId, steps.list[i])]

sol_repo_update(solution_id, data_dict) ==
  solutions' = [solutions EXCEPT ![solution_id] =
                  [f \in DOMAIN solutions[solution_id] |->
                     IF f \in DOMAIN data_dict THEN data_dict[f] ELSE solutions[solution_id][f]]]

\* hard delete of the row; its steps go with it (cascade="all, delete-orphan")
sol_repo_delete(solution_id) ==
  /\ solutions' = [solutions EXCEPT ![solution_id] = Gone]
  /\ solution_steps' = SelectSeq(solution_steps, LAMBDA r : r.solution_id # solution_id)

\* a step's id: the model admits one step per solution and order_index, and that
\* pair identifies the step
StepIds == SolutionIds \X OrderIndexes

StepKey(row) == <<row.solution_id, row.order_index>>

sol_repo_get_step(step_id) ==
  IF \E i \in DOMAIN solution_steps : StepKey(solution_steps[i]) = step_id
  THEN solution_steps[CHOOSE i \in DOMAIN solution_steps : StepKey(solution_steps[i]) = step_id]
  ELSE NoRow

sol_repo_add_step(solution_id, s) == solution_steps' = Append(solution_steps, StepRow(solution_id, s))

sol_repo_update_step(step_id, data_dict) ==
  solution_steps' =
    [i \in DOMAIN solution_steps |->
       IF StepKey(solution_steps[i]) = step_id
       THEN [f \in DOMAIN solution_steps[i] |->
               IF f \in DOMAIN data_dict THEN data_dict[f] ELSE solution_steps[i][f]]
       ELSE solution_steps[i]]

sol_repo_delete_step(step_id) ==
  solution_steps' = SelectSeq(solution_steps, LAMBDA r : StepKey(r) # step_id)

\* the solutions of an entry, by id
sol_repo_get_by_entry(entry_id) ==
  LET ids == {i \in SolutionIds : sol_repo_get(i) # NoRow /\ solutions[i].entry_id = entry_id}
      F[n \in 0..MaxSolutions] ==
        IF n = 0 THEN <<>>
        ELSE IF n \in ids THEN Append(F[n - 1], sol_repo_get_with_steps(n)) ELSE F[n - 1]
  IN F[MaxSolutions]

\* ------------------------------------------------------ MeilisearchClient
\* ENTRIES_INDEX, SOLUTIONS_INDEX
IndexNames == {"entries", "solutions"}

NoIndex == [missing |-> TRUE]

\* the rankingRules of the settings payload
rankingRules == <<"words", "typo", "proximity", "attribute", "sort", "exactness">>

\* the settings ensure_indexes_exist passes for each index
settings_payload(index_name) ==
  IF index_name = "entries"
  THEN [searchableAttributes |-> <<"title", "description", "symptoms", "root_cause">>,
        filterableAttributes |-> <<"severity", "workflow_state", "created_by">>,
        sortableAttributes |-> <<"created_at", "severity">>,
        rankingRules |-> rankingRules]
  ELSE [searchableAttributes |-> <<"title", "description", "steps_text">>,
        filterableAttributes |-> <<"solution_type", "entry_id">>,
        sortableAttributes |-> <<"created_at">>,
        rankingRules |-> rankingRules]

\* an index the service has just created, with the settings it gives a new index
Created(index_name) ==
  [uid |-> index_name, primaryKey |-> "id",
   settings |-> [searchableAttributes |-> <<"*">>, filterableAttributes |-> <<>>,
                 sortableAttributes |-> <<>>, rankingRules |-> rankingRules]]
Configured(index_name) == [Created(index_name) EXCEPT !.settings = settings_payload(index_name)]
\* an index with settings left by an earlier version of the application
Stale(index_name) ==
  [Created(index_name) EXCEPT
     !.settings = [searchableAttributes |-> <<"title">>, filterableAttributes |-> <<>>,
                   sortableAttributes |-> <<>>, rankingRules |-> <<"words">>]]

\* POST /indexes/{name}/documents: add or replace by primary key "id"
IndexUpsert(index, doc) == {d \in index : d.id # doc.id} \cup {doc}

\* DELETE /indexes/{name}/documents/{id}
IndexDelete(index, doc_id) == {d \in index : d.id # doc_id}

\* ------------------------------------------------------------- requests
NewReq(op, id, arg, pc0) ==
  [op |-> op, pc |-> pc0, id |-> id, arg |-> arg, full |-> NoRow, i |-> 1,
   result |-> "pending", ret |-> NoRow, calls |-> <<>>]

IdleReq == NewReq("idle", 0, NoArg, "idle")

\* workflow_state of entry `id` in a store snapshot, None when there is no such row
StateIn(snapshot, id) ==
  IF id \in EntryIds /\ snapshot.entries[id] # NoRow THEN snapshot.entries[id].workflow_state ELSE None

NoSummary == [op |-> "other", id |-> 0, new_state |-> None, result |-> None]

\* what prev keeps of a completed request: a transition_workflow(id, "retired") that
\* began on an entry in draft, in_review or published, and how it ended; likewise an
\* ensure_indexes_exist
Summary(p) ==
  IF /\ req[p].op = "transition_workflow"
     /\ req[p].arg.new_state = "retired"
     /\ StateIn(pre[p], req[p].id) \in {"draft", "in_review", "published"}
  THEN [op |-> req[p].op, id |-> req[p].id, new_state |-> req[p].arg.new_state,
        result |-> req[p].result]
  ELSE IF req[p].op = "ensure_indexes_exist"
  THEN [op |-> req[p].op, id |-> req[p].id, new_state |-> None, result |-> req[p].result]
  ELSE NoSummary

\* request r is the same call as the one prev summarises
Repeats(r, summary) ==
  /\ r.op = summary.op
  /\ r.id = summary.id
  /\ r.op = "transition_workflow" => r.arg.new_state = summary.new_state

\* A request arrives at coroutine p, which runs it up to and including its first
\* awaited call, leaving it as `r`; the first idle coroutine takes it, and at most
\* `workers` requests are in flight.
Begin(p, r) ==
  /\ req[p].pc = "idle"
  /\ \A i, j \in DOMAIN ProcOrder : (ProcOrder[j] = p /\ i < j) => req[ProcOrder[i]].pc # "idle"
  /\ Cardinality({q \in Procs : req[q].pc # "idle"}) < workers
  /\ req' = [req EXCEPT ![p] = r]
  /\ pre' = [pre EXCEPT ![p] = Store]
  /\ prev' = IF Repeats(r, prev) THEN prev ELSE NoSummary
  /\ UNCHANGED <<storeFaults, indexFaults, workers, indexes>>

\* The handler has returned or raised: the response goes out and the coroutine ends.
respond(p) ==
  /\ req[p].pc = "done"
  /\ req' = [req EXCEPT ![p] = IdleReq]
  /\ pre' = [pre EXCEPT ![p] = Store]
  /\ prev' = Summary(p)
  /\ UNCHANGED <<storeVars, indexVars, storeFaults, indexFaults, workers, indexes>>

Raise(r, error) == [r EXCEPT !.pc = "done", !.result = error]
Goto(r, pc) == [r EXCEPT !.pc = pc]
Logged(r, call) == [r EXCEPT !.calls = Append(@, call)]

At(p, op, pc) == req[p].op = op /\ req[p].pc = pc

\* ------------------------------------------------------------ EntryService
\* variant of the table in which a retired entry can be reopened as a draft
VALID_WORKFLOW_TRANSITIONS_reopen ==
  [s \in WorkflowState |->
     CASE s = "draft" -> <<"in_review", "retired">>
       [] s = "in_review" -> <<"draft", "published", "retired">>
       [] s = "published" -> <<"retired", "merged">>
       [] s = "retired" -> <<"draft">>
       [] s = "merged" -> <<>>]

\* variant of the table in which a published entry cannot be merged
VALID_WORKFLOW_TRANSITIONS_no_merge ==
  [s \in WorkflowState |->
     CASE s = "draft" -> <<"in_review", "retired">>
       [] s = "in_review" -> <<"draft", "published", "retired">>
       [] s = "published" -> <<"retired">>
       [] s = "retired" -> <<>>
       [] s = "merged" -> <<>>]

VALID_WORKFLOW_TRANSITIONS ==
  [s \in WorkflowState |->
     CASE s = "draft" -> <<"in_review", "retired">>
       [] s = "in_review" -> <<"draft", "published", "retired">>
       [] s = "published" -> <<"retired", "merged">>
       [] s = "retired" -> <<>>
       [] s = "merged" -> <<>>]

\* variant of the lookup in which retiring a retired entry is accepted
valid_transitions_idempotent_retire(current_state) ==
  IF current_state = "retired" THEN <<"retired">>
  ELSE IF current_state \in DOMAIN VALID_WORKFLOW_TRANSITIONS
  THEN VALID_WORKFLOW_TRANSITIONS[current_state] ELSE <<>>

\* VALID_WORKFLOW_TRANSITIONS.get(current_state, [])
valid_transitions(current_state) ==
  IF current_state \in DOMAIN VALID_WORKFLOW_TRANSITIONS
  THEN VALID_WORKFLOW_TRANSITIONS[current_state] ELSE <<>>

\* str(entry.id)
str(id) == ToString(id)

_entry_to_search_doc(entry) ==
  IF entry.symptoms # <<>> /\ \E i \in DOMAIN entry.symptoms : "symptom" \notin DOMAIN entry.symptoms[i]
  THEN AttributeError
  ELSE [id |-> str(entry.id), title |-> entry.title, workflow_state |-> entry.workflow_state,
        created_by |-> entry.created_by, symptoms |-> ""]

\* variant of _index_entry without the try/except: a failed index call fails the request
_index_entry_unguarded(p) ==
  /\ req[p].op \in {"create_entry", "update_entry"} /\ req[p].pc = "_index_entry"
  /\ LET full_entry == req[p].full
         doc == _entry_to_search_doc(full_entry)
     IN IF doc = AttributeError
        THEN /\ req' = [req EXCEPT ![p].pc = "done", ![p].result = "AttributeError"]
             /\ UNCHANGED entriesIndex
        ELSE \E ok \in IndexOutcomes :
               /\ entriesIndex' = IF ok THEN IndexUpsert(entriesIndex, doc) ELSE entriesIndex
               /\ req' = [req EXCEPT ![p].pc = "done",
                                     ![p].result = IF ok THEN "ok" ELSE "IndexError",
                                     ![p].ret = IF ok THEN full_entry ELSE @,
                                     ![p].calls = Append(@, Call("index", "index_entry", <<doc.id>>, ok))]
  /\ UNCHANGED <<storeVars, solutionsIndex, pre, prev, storeFaults, indexFaults, workers, indexes>>

\* _index_entry, then the caller's `return full_entry`
_index_entry(p) ==
  /\ req[p].op \in {"create_entry", "update_entry"} /\ req[p].pc = "_index_entry"
  /\ LET full_entry == req[p].full
         doc == _entry_to_search_doc(full_entry)
     IN IF doc = AttributeError
        THEN /\ req' = [req EXCEPT ![p].pc = "done", ![p].result = "ok", ![p].ret = full_entry]
             /\ UNCHANGED entriesIndex
        ELSE \E ok \in IndexOutcomes :
               /\ entriesIndex' = IF ok THEN IndexUpsert(entriesIndex, doc) ELSE entriesIndex
               /\ req' = [req EXCEPT ![p].pc = "done", ![p].result = "ok", ![p].ret = full_entry,
                                     ![p].calls = Append(@, Call("index", "index_entry", <<doc.id>>, ok))]
  /\ UNCHANGED <<storeVars, solutionsIndex, pre, prev, storeFaults, indexFaults, workers, indexes>>

\* variant of _delete_entry_from_index that addresses the solutions index
_delete_entry_from_index_solutions(p) ==
  /\ At(p, "delete_entry", "_delete_entry_from_index")
  /\ \E ok \in IndexOutcomes :
       /\ solutionsIndex' = IF ok THEN IndexDelete(solutionsIndex, str(req[p].id)) ELSE solutionsIndex
       /\ req' = [req EXCEPT ![p].pc = "done", ![p].result = "ok", ![p].ret = [value |-> TRUE],
                             ![p].calls = Append(@, Call("index", "delete_entry", <<str(req[p].id)>>, ok))]
  /\ UNCHANGED <<storeVars, entriesIndex, pre, prev, storeFaults, indexFaults, workers, indexes>>

\* _delete_entry_from_index, then the caller's `return True`
_delete_entry_from_index(p) ==
  /\ At(p, "delete_entry", "_delete_entry_from_index")
  /\ \E ok \in IndexOutcomes :
       /\ entriesIndex' = IF ok THEN IndexDelete(entriesIndex, str(req[p].id)) ELSE entriesIndex
       /\ req' = [req EXCEPT ![p].pc = "done", ![p].result = "ok", ![p].ret = [value |-> TRUE],
                             ![p].calls = Append(@, Call("index", "delete_entry", <<str(req[p].id)>>, ok))]
  /\ UNCHANGED <<storeVars, solutionsIndex, pre, prev, storeFaults, indexFaults, workers, indexes>>

SymptomCreate == [description : SymptomTexts, order_index : OrderIndexes]
IncidentCreate == [incident_id : IncidentRefs]
EntryCreate ==
  [title : Titles, workflow_state : InputStates,
   symptoms : DistinctSeqs(SymptomCreate, "order_index"),
   incidents : DistinctSeqs(IncidentCreate, "incident_id")]

\* variant of the data_dict that keeps the workflow_state of the payload
create_entry_data_dict_keep_state(entry_data, created_by) ==
  LET dump == [f \in DOMAIN entry_data \ {"symptoms", "incidents"} |-> entry_data[f]]
  IN [f \in DOMAIN dump \cup {"created_by"} |->
        IF f = "created_by" THEN created_by ELSE dump[f]]

\* entry_data.model_dump(exclude={"symptoms", "incidents"}), created_by and workflow_state set
create_entry_data_dict(entry_data, created_by) ==
  LET dump == [f \in DOMAIN entry_data \ {"symptoms", "incidents"} |-> entry_data[f]]
  IN [f \in DOMAIN dump \cup {"created_by", "workflow_state"} |->
        IF f = "created_by" THEN created_by
        ELSE IF f = "workflow_state" THEN "draft"
        ELSE dump[f]]

\* the request arrives; entry = await self.repo.create_with_symptoms(data_dict, symptoms)
create_entry_write(p) ==
  \E entry_data \in EntryCreate, created_by \in Users, ok \in StoreOutcomes :
    LET r == NewReq("create_entry", 0, [entry_data |-> entry_data, created_by |-> created_by], "")
        data_dict == create_entry_data_dict(entry_data, created_by)
        symptoms == IF entry_data.symptoms # <<>>
                    THEN [is_none |-> FALSE, list |-> entry_data.symptoms]
                    ELSE [is_none |-> TRUE, list |-> <<>>]
        call == Call("store", "create_with_symptoms", <<>>, ok)
    IN /\ \E i \in EntryIds : entries[i] = NoRow
       /\ IF ok
          THEN /\ repo_create_with_symptoms(data_dict, symptoms)
               /\ Begin(p, Logged([Goto(r, IF entry_data.incidents # <<>>
                                           THEN "repo.add_incident" ELSE "repo.get_with_relations")
                                     EXCEPT !.id = NewEntryId], call))
          ELSE /\ Begin(p, Logged(Raise(r, "StoreError"), call))
               /\ UNCHANGED <<entries, entry_symptoms>>
       /\ UNCHANGED <<entry_incidents, solutionVars, indexVars>>

\* for incident in entry_data.incidents: await self.repo.add_incident(entry.id, ...)
create_entry_incident(p) ==
  /\ At(p, "create_entry", "repo.add_incident")
  /\ LET incidents == req[p].arg.entry_data.incidents
         i == req[p].i
     IN \E ok \in StoreOutcomes :
          IF ok
          THEN /\ repo_add_incident(req[p].id, incidents[i])
               /\ req' = [req EXCEPT ![p].i = i + 1,
                                     ![p].pc = IF i < Len(incidents)
                                               THEN "repo.add_incident" ELSE "repo.get_with_relations",
                                     ![p].calls = Append(@, Call("store", "add_incident", <<>>, TRUE))]
          ELSE /\ req' = [req EXCEPT ![p].pc = "done", ![p].result = "StoreError",
                                     ![p].calls = Append(@, Call("store", "add_incident", <<>>, FALSE))]
               /\ UNCHANGED entry_incidents
  /\ UNCHANGED <<entries, entry_symptoms, solutionVars, indexVars, pre, prev, storeFaults, indexFaults, workers, indexes>>

\* full_entry = await self.repo.get_with_relations(...) of create_entry and update_entry
entry_reread(p) ==
  /\ req[p].op \in {"create_entry", "update_entry"} /\ req[p].pc = "repo.get_with_relations"
  /\ req' = [req EXCEPT ![p].full = repo_get_with_relations(req[p].id), ![p].pc = "_index_entry"]
  /\ UNCHANGED <<storeVars, indexVars, pre, prev, storeFaults, indexFaults, workers, indexes>>

create_entry(p) ==
  \/ create_entry_write(p)
  \/ create_entry_incident(p)

\* EntryUpdate.model_dump(exclude_unset=True): the fields the caller set
EntryUpdate == {<<>>} \cup [{"title"} -> Titles]

\* variant of the guard that also lets a published entry be edited
update_allowed_published(workflow_state) == workflow_state \in {"draft", "in_review", "published"}

\* variant of the guard that lets an entry be edited in every state
update_allowed_always(workflow_state) == workflow_state \in WorkflowState

\* the guard of update_entry: entry.workflow_state in ["draft", "in_review"]
update_allowed(workflow_state) == workflow_state \in {"draft", "in_review"}

\* the request arrives; entry = await self.repo.get(entry_id), and the two guards
update_entry_get(p) ==
  \E entry_id \in EntryIds, entry_data \in EntryUpdate :
    LET r == NewReq("update_entry", entry_id, [entry_data |-> entry_data], "")
        entry == repo_get(entry_id)
    IN /\ Begin(p, IF entry = NoRow THEN Raise(r, "NotFoundError")
                   ELSE IF ~update_allowed(entry.workflow_state) THEN Raise(r, "WorkflowError")
                   ELSE Goto(r, "repo.update"))
       /\ UNCHANGED <<storeVars, indexVars>>

update_entry_write(p) ==
  /\ At(p, "update_entry", "repo.update")
  /\ LET data_dict == req[p].arg.entry_data
     IN \E ok \in StoreOutcomes :
          IF ok
          THEN /\ repo_update(req[p].id, data_dict)
               /\ req' = [req EXCEPT ![p].pc = "repo.get_with_relations",
                                     ![p].calls = Append(@, Call("store", "update", <<>>, TRUE))]
          ELSE /\ req' = [req EXCEPT ![p].pc = "done", ![p].result = "StoreError",
                                     ![p].calls = Append(@, Call("store", "update", <<>>, FALSE))]
               /\ UNCHANGED entries
  /\ UNCHANGED <<entry_symptoms, entry_incidents, solutionVars, indexVars, pre, prev, storeFaults, indexFaults, workers, indexes>>

update_entry(p) ==
  \/ update_entry_get(p)
  \/ update_entry_write(p)

\* the request arrives; entry = await self.repo.get(entry_id)
delete_entry_get(p) ==
  \E entry_id \in EntryIds :
    LET r == NewReq("delete_entry", entry_id, NoArg, "")
    IN /\ Begin(p, IF repo_get(entry_id) = NoRow THEN Raise(r, "NotFoundError")
                   ELSE Goto(r, "repo.update_workflow_state"))
       /\ UNCHANGED <<storeVars, indexVars>>

delete_entry_write(p) ==
  /\ At(p, "delete_entry", "repo.update_workflow_state")
  /\ \E ok \in StoreOutcomes :
       IF ok
       THEN /\ repo_update_workflow_state(req[p].id, "retired", None)
            /\ req' = [req EXCEPT ![p].pc = "_delete_entry_from_index",
                                  ![p].calls = Append(@, Call("store", "update_workflow_state",
                                                              <<"retired", None>>, TRUE))]
       ELSE /\ req' = [req EXCEPT ![p].pc = "done", ![p].result = "StoreError",
                                  ![p].calls = Append(@, Call("store", "update_workflow_state",
                                                              <<"retired", None>>, FALSE))]
            /\ UNCHANGED entries
  /\ UNCHANGED <<entry_symptoms, entry_incidents, solutionVars, indexVars, pre, prev, storeFaults, indexFaults, workers, indexes>>

delete_entry(p) ==
  \/ delete_entry_get(p)
  \/ delete_entry_write(p)

add_symptom_get(p) ==
  \E entry_id \in EntryIds, symptom_data \in SymptomCreate :
    LET r == NewReq("add_symptom", entry_id, [symptom_data |-> symptom_data], "")
    IN /\ ~HasRow(entry_symptoms, entry_id, "order_index", symptom_data.order_index)
       /\ Begin(p, IF repo_get(entry_id) = NoRow THEN Raise(r, "NotFoundError")
                   ELSE Goto(r, "repo.add_symptom"))
       /\ UNCHANGED <<storeVars, indexVars>>

add_symptom_write(p) ==
  /\ At(p, "add_symptom", "repo.add_symptom")
  /\ \E ok \in StoreOutcomes :
       IF ok
       THEN /\ repo_add_symptom(req[p].id, req[p].arg.symptom_data)
            /\ req' = [req EXCEPT ![p].pc = "done", ![p].result = "ok",
                                  ![p].ret = SymptomRow(req[p].id, req[p].arg.symptom_data),
                                  ![p].calls = Append(@, Call("store", "add_symptom", <<>>, TRUE))]
       ELSE /\ req' = [req EXCEPT ![p].pc = "done", ![p].result = "StoreError",
                                  ![p].calls = Append(@, Call("store", "add_symptom", <<>>, FALSE))]
            /\ UNCHANGED entry_symptoms
  /\ UNCHANGED <<entries, entry_incidents, solutionVars, indexVars, pre, prev, storeFaults, indexFaults, workers, indexes>>

add_symptom(p) ==
  \/ add_symptom_get(p)
  \/ add_symptom_write(p)

add_incident_get(p) ==
  \E entry_id \in EntryIds, incident_data \in IncidentCreate :
    LET r == NewReq("add_incident", entry_id, [incident_data |-> incident_data], "")
    IN /\ ~HasRow(entry_incidents, entry_id, "incident_id", incident_data.incident_id)
       /\ Begin(p, IF repo_get(entry_id) = NoRow THEN Raise(r, "NotFoundError")
                   ELSE Goto(r, "repo.add_incident"))
       /\ UNCHANGED <<storeVars, indexVars>>

add_incident_write(p) ==
  /\ At(p, "add_incident", "repo.add_incident")
  /\ \E ok \in StoreOutcomes :
       IF ok
       THEN /\ repo_add_incident(req[p].id, req[p].arg.incident_data)
            /\ req' = [req EXCEPT ![p].pc = "done", ![p].result = "ok",
                                  ![p].ret = IncidentRow(req[p].id, req[p].arg.incident_data),
                                  ![p].calls = Append(@, Call("store", "add_incident", <<>>, TRUE))]
       ELSE /\ req' = [req EXCEPT ![p].pc = "done", ![p].result = "StoreError",
                                  ![p].calls = Append(@, Call("store", "add_incident", <<>>, FALSE))]
            /\ UNCHANGED entry_incidents
  /\ UNCHANGED <<entries, entry_symptoms, solutionVars, indexVars, pre, prev, storeFaults, indexFaults, workers, indexes>>

add_incident(p) ==
  \/ add_incident_get(p)
  \/ add_incident_write(p)

\* the text of the WorkflowError of a rejected transition
workflow_error_message(current_state, new_state, transitions) ==
  "Invalid transition from " \o current_state \o " to " \o new_state \o ". "
  \o "Valid transitions: " \o join(", ", transitions)

\* the request arrives; entry = await self.repo.get(entry_id), and the two guards
transition_workflow_get(p) ==
  \E entry_id \in EntryIds, new_state \in WorkflowState, approved_by \in Users \cup {None} :
    LET r == NewReq("transition_workflow", entry_id,
                    [new_state |-> new_state, approved_by |-> approved_by], "")
        entry == repo_get(entry_id)
    IN /\ Begin(p, IF entry = NoRow THEN Raise(r, "NotFoundError")
                   ELSE IF ~InList(new_state, valid_transitions(entry.workflow_state))
                   THEN [Raise(r, "WorkflowError") EXCEPT
                           !.ret = [message |-> workflow_error_message(
                                                  entry.workflow_state, new_state,
                                                  valid_transitions(entry.workflow_state))]]
                   ELSE Goto(r, "repo.update_workflow_state"))
       /\ UNCHANGED <<storeVars, indexVars>>

\* variant that re-indexes the entry after the write
transition_workflow_write_indexed(p) ==
  /\ At(p, "transition_workflow", "repo.update_workflow_state")
  /\ repo_update_workflow_state(req[p].id, req[p].arg.new_state, req[p].arg.approved_by)
  /\ entriesIndex' = IndexUpsert(entriesIndex, _entry_to_search_doc(
                                   [repo_get_with_relations(req[p].id) EXCEPT
                                      !.workflow_state = req[p].arg.new_state]))
  /\ req' = [req EXCEPT ![p].pc = "done", ![p].result = "ok", ![p].ret = entries'[req[p].id],
                        ![p].calls = @ \o <<Call("store", "update_workflow_state",
                                                 <<req[p].arg.new_state, req[p].arg.approved_by>>, TRUE),
                                            Call("index", "index_entry", <<str(req[p].id)>>, TRUE)>>]
  /\ UNCHANGED <<entry_symptoms, entry_incidents, solutionVars, solutionsIndex, pre, prev, storeFaults, indexFaults, workers, indexes>>

transition_workflow_write(p) ==
  /\ At(p, "transition_workflow", "repo.update_workflow_state")
  /\ LET new_state == req[p].arg.new_state
         approved_by == req[p].arg.approved_by
     IN \E ok \in StoreOutcomes :
          IF ok
          THEN /\ repo_update_workflow_state(req[p].id, new_state, approved_by)
               /\ req' = [req EXCEPT ![p].pc = "done", ![p].result = "ok",
                                     ![p].ret = entries'[req[p].id],
                                     ![p].calls = Append(@, Call("store", "update_workflow_state",
                                                                 <<new_state, approved_by>>, TRUE))]
          ELSE /\ req' = [req EXCEPT ![p].pc = "done", ![p].result = "StoreError",
                                     ![p].calls = Append(@, Call("store", "update_workflow_state",
                                                                 <<new_state, approved_by>>, FALSE))]
               /\ UNCHANGED entries
  /\ UNCHANGED <<entry_symptoms, entry_incidents, solutionVars, indexVars, pre, prev, storeFaults, indexFaults, workers, indexes>>

transition_workflow(p) ==
  \/ transition_workflow_get(p)
  \/ transition_workflow_write(p)

\* get_entry: a read of the store, NoRow standing for NotFoundError
get_entry(entry_id) == repo_get_with_relations(entry_id)

\* --------------------------------------------------------- SolutionService
\* variant of the step text that formats a null expected_result as it is
step_text_uncoalesced(s) ==
  (IF s.action = None THEN "" ELSE s.action) \o " " \o s.expected_result

\* f"{s.action or ''} {s.expected_result or ''}"
step_text(s) ==
  (IF s.action = None THEN "" ELSE s.action) \o " " \o
  (IF s.expected_result = None THEN "" ELSE s.expected_result)

_solution_to_search_doc(solution) ==
  LET steps_text == IF solution.steps # <<>>
                    THEN join(" ", [i \in DOMAIN solution.steps |-> step_text(solution.steps[i])])
                    ELSE ""
  IN [id |-> str(solution.id), title |-> solution.title, entry_id |-> str(solution.entry_id),
      steps_text |-> steps_text]

\* variant of _index_solution that sends the document once more after a failed call
_index_solution_retried(p) ==
  /\ req[p].op \in {"create_solution", "update_solution"} /\ req[p].pc = "_index_solution"
  /\ LET full_solution == req[p].full
         doc == _solution_to_search_doc(full_solution)
         call(ok) == Call("index", "index_solution", <<doc.id>>, ok)
     IN \E ok \in IndexOutcomes, again \in IndexOutcomes :
          /\ solutionsIndex' = IF ok \/ again THEN IndexUpsert(solutionsIndex, doc) ELSE solutionsIndex
          /\ req' = [req EXCEPT ![p].pc = "done", ![p].result = "ok", ![p].ret = full_solution,
                                ![p].calls = IF ok THEN Append(@, call(TRUE))
                                             ELSE Append(Append(@, call(FALSE)), call(again))]
  /\ UNCHANGED <<storeVars, entriesIndex, pre, prev, storeFaults, indexFaults, workers, indexes>>

\* _index_solution, then the caller's `return full_solution`
_index_solution(p) ==
  /\ req[p].op \in {"create_solution", "update_solution"} /\ req[p].pc = "_index_solution"
  /\ LET full_solution == req[p].full
         doc == _solution_to_search_doc(full_solution)
     IN \E ok \in IndexOutcomes :
          /\ solutionsIndex' = IF ok THEN IndexUpsert(solutionsIndex, doc) ELSE solutionsIndex
          /\ req' = [req EXCEPT ![p].pc = "done", ![p].result = "ok", ![p].ret = full_solution,
                                ![p].calls = Append(@, Call("index", "index_solution", <<doc.id>>, ok))]
  /\ UNCHANGED <<storeVars, entriesIndex, pre, prev, storeFaults, indexFaults, workers, indexes>>

\* _delete_solution_from_index
_delete_solution_from_index(p) ==
  /\ At(p, "delete_solution", "_delete_solution_from_index")
  /\ \E ok \in IndexOutcomes :
       /\ solutionsIndex' = IF ok THEN IndexDelete(solutionsIndex, str(req[p].id)) ELSE solutionsIndex
       /\ req' = [req EXCEPT ![p].pc = "repo.delete",
                             ![p].calls = Append(@, Call("index", "delete_solution", <<str(req[p].id)>>, ok))]
  /\ UNCHANGED <<storeVars, entriesIndex, pre, prev, storeFaults, indexFaults, workers, indexes>>

SolutionStepCreate == [order_index : OrderIndexes, action : StepActions, expected_result : StepResults]
SolutionCreate == [title : Titles, steps : DistinctSeqs(SolutionStepCreate, "order_index")]
SolutionUpdate == {<<>>} \cup [{"title"} -> Titles]

\* solution_data.model_dump(exclude={"steps"}), entry_id and created_by set
create_solution_data_dict(entry_id, solution_data, created_by) ==
  LET dump == [f \in DOMAIN solution_data \ {"steps"} |-> solution_data[f]]
  IN [f \in DOMAIN dump \cup {"entry_id", "created_by"} |->
        IF f = "entry_id" THEN entry_id
        ELSE IF f = "created_by" THEN created_by
        ELSE dump[f]]

\* the request arrives; entry = await self.entry_repo.get(entry_id)
create_solution_get(p) ==
  \E entry_id \in EntryIds, solution_data \in SolutionCreate, created_by \in Users :
    LET r == NewReq("create_solution", 0,
                    [entry_id |-> entry_id, solution_data |-> solution_data,
                     created_by |-> created_by], "")
    IN /\ \E i \in SolutionIds : solutions[i] = NoRow
       /\ Begin(p, IF repo_get(entry_id) = NoRow THEN Raise(r, "NotFoundError")
                   ELSE Goto(r, "repo.create_with_steps"))
       /\ UNCHANGED <<storeVars, indexVars>>

create_solution_write(p) ==
  /\ At(p, "create_solution", "repo.create_with_steps")
  /\ LET solution_data == req[p].arg.solution_data
         data_dict == create_solution_data_dict(req[p].arg.entry_id, solution_data, req[p].arg.created_by)
         steps == IF solution_data.steps # <<>>
                  THEN [is_none |-> FALSE, list |-> solution_data.steps]
                  ELSE [is_none |-> TRUE, list |-> <<>>]
     IN \E ok \in StoreOutcomes :
          IF ok
          THEN /\ sol_repo_create_with_steps(data_dict, steps)
               /\ req' = [req EXCEPT ![p].id = NewSolutionId, ![p].pc = "repo.get_with_steps",
                                     ![p].calls = Append(@, Call("store", "create_with_steps", <<>>, TRUE))]
          ELSE /\ req' = [req EXCEPT ![p].pc = "done", ![p].result = "StoreError",
                                     ![p].calls = Append(@, Call("store", "create_with_steps", <<>>, FALSE))]
               /\ UNCHANGED solutionVars
  /\ UNCHANGED <<entryVars, indexVars, pre, prev, storeFaults, indexFaults, workers, indexes>>

\* full_solution = await self.repo.get_with_steps(...) of create_solution and update_solution
solution_reread(p) ==
  /\ req[p].op \in {"create_solution", "update_solution"} /\ req[p].pc = "repo.get_with_steps"
  /\ req' = [req EXCEPT ![p].full = sol_repo_get_with_steps(req[p].id), ![p].pc = "_index_solution"]
  /\ UNCHANGED <<storeVars, indexVars, pre, prev, storeFaults, indexFaults, workers, indexes>>

create_solution(p) ==
  \/ create_solution_get(p)
  \/ create_solution_write(p)

update_solution_get(p) ==
  \E solution_id \in SolutionIds, solution_data \in SolutionUpdate :
    LET r == NewReq("update_solution", solution_id, [solution_data |-> solution_data], "")
    IN /\ Begin(p, IF sol_repo_get(solution_id) = NoRow THEN Raise(r, "NotFoundError")
                   ELSE Goto(r, "repo.update"))
       /\ UNCHANGED <<storeVars, indexVars>>

update_solution_write(p) ==
  /\ At(p, "update_solution", "repo.update")
  /\ LET data_dict == req[p].arg.solution_data
     IN \E ok \in StoreOutcomes :
          IF ok
          THEN /\ sol_repo_update(req[p].id, data_dict)
               /\ req' = [req EXCEPT ![p].pc = "repo.get_with_steps",
                                     ![p].calls = Append(@, Call("store", "update", <<>>, TRUE))]
          ELSE /\ req' = [req EXCEPT ![p].pc = "done", ![p].result = "StoreError",
                                     ![p].calls = Append(@, Call("store", "update", <<>>, FALSE))]
               /\ UNCHANGED solutions
  /\ UNCHANGED <<entryVars, solution_steps, indexVars, pre, prev, storeFaults, indexFaults, workers, indexes>>

update_solution(p) ==
  \/ update_solution_get(p)
  \/ update_solution_write(p)

delete_solution_get(p) ==
  \E solution_id \in SolutionIds :
    LET r == NewReq("delete_solution", solution_id, NoArg, "")
    IN /\ Begin(p, IF sol_repo_get(solution_id) = NoRow THEN Raise(r, "NotFoundError")
                   ELSE Goto(r, "_delete_solution_from_index"))
       /\ UNCHANGED <<storeVars, indexVars>>

\* variant of the last step of delete_solution that returns without deleting the row
delete_solution_write_skipped(p) ==
  /\ At(p, "delete_solution", "repo.delete")
  /\ req' = [req EXCEPT ![p].pc = "done", ![p].result = "ok", ![p].ret = [value |-> TRUE]]
  /\ UNCHANGED <<storeVars, indexVars, pre, prev, storeFaults, indexFaults, workers, indexes>>

\* return await self.repo.delete(solution_id)
delete_solution_write(p) ==
  /\ At(p, "delete_solution", "repo.delete")
  /\ \E ok \in StoreOutcomes :
       IF ok
       THEN /\ sol_repo_delete(req[p].id)
            /\ req' = [req EXCEPT ![p].pc = "done", ![p].result = "ok", ![p].ret = [value |-> TRUE],
                                  ![p].calls = Append(@, Call("store", "delete", <<>>, TRUE))]
       ELSE /\ req' = [req EXCEPT ![p].pc = "done", ![p].result = "StoreError",
                                  ![p].calls = Append(@, Call("store", "delete", <<>>, FALSE))]
            /\ UNCHANGED solutionVars
  /\ UNCHANGED <<entryVars, indexVars, pre, prev, storeFaults, indexFaults, workers, indexes>>

delete_solution(p) ==
  \/ delete_solution_get(p)
  \/ delete_solution_write(p)

\* get_solution: a read of the store, NoRow standing for NotFoundError
get_solution(solution_id) == sol_repo_get_with_steps(solution_id)

\* ------------------------------------------- reads and step operations
\* get_entry as a request: repo.get_with_relations and the guard
get_entry_request(p) ==
  \E entry_id \in EntryIds :
    LET r == NewReq("get_entry", entry_id, NoArg, "")
        entry == get_entry(entry_id)
    IN /\ Begin(p, IF entry = NoRow THEN Raise(r, "NotFoundError")
                   ELSE [r EXCEPT !.pc = "done", !.result = "ok", !.ret = entry])
       /\ UNCHANGED <<storeVars, indexVars>>

\* get_solution as a request: repo.get_with_steps and the guard
get_solution_request(p) ==
  \E solution_id \in SolutionIds :
    LET r == NewReq("get_solution", solution_id, NoArg, "")
        solution == get_solution(solution_id)
    IN /\ Begin(p, IF solution = NoRow THEN Raise(r, "NotFoundError")
                   ELSE [r EXCEPT !.pc = "done", !.result = "ok", !.ret = solution])
       /\ UNCHANGED <<storeVars, indexVars>>

\* the request arrives; entry = await self.entry_repo.get(entry_id)
get_entry_solutions_get(p) ==
  \E entry_id \in EntryIds :
    LET r == NewReq("get_entry_solutions", entry_id, NoArg, "")
    IN /\ Begin(p, IF repo_get(entry_id) = NoRow THEN Raise(r, "NotFoundError")
                   ELSE Goto(r, "repo.get_by_entry"))
       /\ UNCHANGED <<storeVars, indexVars>>

\* return await self.repo.get_by_entry(entry_id)
get_entry_solutions_read(p) ==
  /\ At(p, "get_entry_solutions", "repo.get_by_entry")
  /\ req' = [req EXCEPT ![p].pc = "done", ![p].result = "ok",
                        ![p].ret = [value |-> sol_repo_get_by_entry(req[p].id)]]
  /\ UNCHANGED <<storeVars, indexVars, pre, prev, storeFaults, indexFaults, workers, indexes>>

get_entry_solutions(p) ==
  \/ get_entry_solutions_get(p)
  \/ get_entry_solutions_read(p)

SolutionStepUpdate == {<<>>} \cup [{"action"} -> StepActions]

\* the request arrives; solution = await self.repo.get(solution_id)
add_step_get(p) ==
  \E solution_id \in SolutionIds, step_data \in SolutionStepCreate :
    LET r == NewReq("add_step", solution_id, [step_data |-> step_data], "")
    IN /\ sol_repo_get_step(<<solution_id, step_data.order_index>>) = NoRow
       /\ Begin(p, IF sol_repo_get(solution_id) = NoRow THEN Raise(r, "NotFoundError")
                   ELSE Goto(r, "repo.add_step"))
       /\ UNCHANGED <<storeVars, indexVars>>

\* variant that removes the solution's stale document after adding the step
add_step_write_unindexed(p) ==
  /\ At(p, "add_step", "repo.add_step")
  /\ sol_repo_add_step(req[p].id, req[p].arg.step_data)
  /\ solutionsIndex' = IndexDelete(solutionsIndex, str(req[p].id))
  /\ req' = [req EXCEPT ![p].pc = "done", ![p].result = "ok",
                        ![p].ret = StepRow(req[p].id, req[p].arg.step_data),
                        ![p].calls = @ \o <<Call("store", "add_step", <<>>, TRUE),
                                            Call("index", "delete_solution", <<str(req[p].id)>>, TRUE)>>]
  /\ UNCHANGED <<entryVars, solutions, entriesIndex, pre, prev, storeFaults, indexFaults, workers, indexes>>

\* step = await self.repo.add_step(solution_id, step_data.model_dump())
add_step_write(p) ==
  /\ At(p, "add_step", "repo.add_step")
  /\ \E ok \in StoreOutcomes :
       IF ok
       THEN /\ sol_repo_add_step(req[p].id, req[p].arg.step_data)
            /\ req' = [req EXCEPT ![p].pc = "done", ![p].result = "ok",
                                  ![p].ret = StepRow(req[p].id, req[p].arg.step_data),
                                  ![p].calls = Append(@, Call("store", "add_step", <<>>, TRUE))]
       ELSE /\ req' = [req EXCEPT ![p].pc = "done", ![p].result = "StoreError",
                                  ![p].calls = Append(@, Call("store", "add_step", <<>>, FALSE))]
            /\ UNCHANGED solution_steps
  /\ UNCHANGED <<entryVars, solutions, indexVars, pre, prev, storeFaults, indexFaults, workers, indexes>>

add_step(p) ==
  \/ add_step_get(p)
  \/ add_step_write(p)

\* the request arrives; step = await self.repo.get_step(step_id)
update_step_get(p) ==
  \E step_id \in StepIds, step_data \in SolutionStepUpdate :
    LET r == NewReq("update_step", step_id, [step_data |-> step_data], "")
    IN /\ Begin(p, IF sol_repo_get_step(step_id) = NoRow THEN Raise(r, "NotFoundError")
                   ELSE Goto(r, "repo.update_step"))
       /\ UNCHANGED <<storeVars, indexVars>>

\* return await self.repo.update_step(step_id, data_dict)
update_step_write(p) ==
  /\ At(p, "update_step", "repo.update_step")
  /\ \E ok \in StoreOutcomes :
       IF ok
       THEN /\ sol_repo_update_step(req[p].id, req[p].arg.step_data)
            /\ req' = [req EXCEPT ![p].pc = "done", ![p].result = "ok",
                                  ![p].ret = [value |-> TRUE],
                                  ![p].calls = Append(@, Call("store", "update_step", <<>>, TRUE))]
       ELSE /\ req' = [req EXCEPT ![p].pc = "done", ![p].result = "StoreError",
                                  ![p].calls = Append(@, Call("store", "update_step", <<>>, FALSE))]
            /\ UNCHANGED solution_steps
  /\ UNCHANGED <<entryVars, solutions, indexVars, pre, prev, storeFaults, indexFaults, workers, indexes>>

update_step(p) ==
  \/ update_step_get(p)
  \/ update_step_write(p)

\* variant of delete_step without the lookup of the step
delete_step_get_unguarded(p) ==
  \E step_id \in StepIds :
    LET r == NewReq("delete_step", step_id, NoArg, "")
    IN /\ Begin(p, Goto(r, "repo.delete_step"))
       /\ UNCHANGED <<storeVars, indexVars>>

\* the request arrives; step = await self.repo.get_step(step_id)
delete_step_get(p) ==
  \E step_id \in StepIds :
    LET r == NewReq("delete_step", step_id, NoArg, "")
    IN /\ Begin(p, IF sol_repo_get_step(step_id) = NoRow THEN Raise(r, "NotFoundError")
                   ELSE Goto(r, "repo.delete_step"))
       /\ UNCHANGED <<storeVars, indexVars>>

\* return await self.repo.delete_step(step_id)
delete_step_write(p) ==
  /\ At(p, "delete_step", "repo.delete_step")
  /\ \E ok \in StoreOutcomes :
       IF ok
       THEN /\ sol_repo_delete_step(req[p].id)
            /\ req' = [req EXCEPT ![p].pc = "done", ![p].result = "ok",
                                  ![p].ret = [value |-> TRUE],
                                  ![p].calls = Append(@, Call("store", "delete_step", <<>>, TRUE))]
       ELSE /\ req' = [req EXCEPT ![p].pc = "done", ![p].result = "StoreError",
                                  ![p].calls = Append(@, Call("store", "delete_step", <<>>, FALSE))]
            /\ UNCHANGED solution_steps
  /\ UNCHANGED <<entryVars, solutions, indexVars, pre, prev, storeFaults, indexFaults, workers, indexes>>

delete_step(p) ==
  \/ delete_step_get(p)
  \/ delete_step_write(p)

\* --------------------------------------------------------- specification
InitStore ==
  /\ entries = [i \in EntryIds |-> NoRow]
  /\ entry_symptoms = <<>>
  /\ entry_incidents = <<>>
  /\ solutions = [i \in SolutionIds |-> NoRow]
  /\ solution_steps = <<>>
  /\ entriesIndex = {}
  /\ solutionsIndex = {}
  /\ req = [p \in Procs |-> IdleReq]
  /\ indexes = [n \in IndexNames |-> Configured(n)]
  /\ pre = [p \in Procs |-> Store]
  /\ prev = NoSummary

Init == InitStore /\ storeFaults = FALSE /\ indexFaults = TRUE /\ workers = 1

InitFaulty == InitStore /\ storeFaults = TRUE /\ indexFaults = TRUE /\ workers = 1

InitIndexUp == InitStore /\ storeFaults = FALSE /\ indexFaults = FALSE /\ workers = 1

EntryService(p) ==
  \/ create_entry(p)
  \/ update_entry(p)
  \/ delete_entry(p)
  \/ add_symptom(p)
  \/ add_incident(p)
  \/ transition_workflow(p)
  \/ entry_reread(p)
  \/ _index_entry(p)
  \/ _delete_entry_from_index(p)

SolutionService(p) ==
  \/ create_solution(p)
  \/ update_solution(p)
  \/ delete_solution(p)
  \/ solution_reread(p)
  \/ _index_solution(p)
  \/ _delete_solution_from_index(p)

Next == \E p \in Procs : EntryService(p) \/ respond(p)

NextAll == \E p \in Procs : EntryService(p) \/ SolutionService(p) \/ respond(p)

\* the entry service, requests served one at a time, index calls may fail
Spec == Init /\ [][Next]_vars

\* the entry and the solution service together
SpecAll == Init /\ [][NextAll]_vars

\* both services, and store writes may fail too
SpecFaulty == InitFaulty /\ [][NextAll]_vars

\* both services, the store and the index always available
SpecIndexUp == InitIndexUp /\ [][NextAll]_vars

NextOps ==
  \E p \in Procs :
    \/ EntryService(p) \/ SolutionService(p)
    \/ get_entry_request(p) \/ get_solution_request(p) \/ get_entry_solutions(p)
    \/ add_step(p) \/ update_step(p) \/ delete_step(p)
    \/ respond(p)

\* every operation of the two services, the store and the index always available
SpecOps == InitIndexUp /\ [][NextOps]_vars

\* ------------------------------------------------- ensure_indexes_exist
\* the index _create_index_if_not_exists is working on: entries first, then solutions
index_name(r) == IF r.i = 1 THEN "entries" ELSE "solutions"

\* variant that takes every failure of the probe for a 404
after_get_any_failure(r, ok) ==
  LET logged == Logged(r, Call("index", "GET /indexes", <<index_name(r)>>, ok))
  IN IF ~ok \/ indexes[index_name(r)] = NoIndex THEN Goto(logged, "POST")
     ELSE Goto(logged, "PATCH")

\* after GET /indexes/{index_name}: 404 leads to the POST, another failure is raised
after_get(r, ok) ==
  LET logged == Logged(r, Call("index", "GET /indexes", <<index_name(r)>>, ok))
  IN IF ~ok THEN Raise(logged, "IndexError")
     ELSE IF indexes[index_name(r)] = NoIndex THEN Goto(logged, "POST")
     ELSE Goto(logged, "PATCH")

\* after _create_index_if_not_exists returns: the next index, or the end of the call
after_settings(r) ==
  IF r.i = 1 THEN [r EXCEPT !.i = 2, !.pc = "GET"]
  ELSE [r EXCEPT !.pc = "done", !.result = "ok"]

\* the call arrives, or the second _create_index_if_not_exists begins:
\* await self._request("GET", f"/indexes/{index_name}")
_create_index_get(p) ==
  \E ok \in IndexOutcomes :
    /\ \/ Begin(p, after_get(NewReq("ensure_indexes_exist", 0, NoArg, "GET"), ok))
       \/ /\ At(p, "ensure_indexes_exist", "GET")
          /\ req' = [req EXCEPT ![p] = after_get(req[p], ok)]
          /\ UNCHANGED <<pre, prev, storeFaults, indexFaults, workers>>
    /\ UNCHANGED <<storeVars, indexVars, indexes>>

\* variant in which the settings are sent only for an index that already existed
_create_index_post_only(p) ==
  /\ At(p, "ensure_indexes_exist", "POST")
  /\ \E ok \in IndexOutcomes :
       LET logged == Logged(req[p], Call("index", "POST /indexes", <<index_name(req[p])>>, ok))
       IN IF ok
          THEN /\ indexes' = [indexes EXCEPT ![index_name(req[p])] = Created(index_name(req[p]))]
               /\ req' = [req EXCEPT ![p] = after_settings(logged)]
          ELSE /\ req' = [req EXCEPT ![p] = Raise(logged, "IndexError")]
               /\ UNCHANGED indexes
  /\ UNCHANGED <<storeVars, indexVars, pre, prev, storeFaults, indexFaults, workers>>

\* await self._request("POST", "/indexes", json={"uid": index_name, "primaryKey": primary_key})
_create_index_post(p) ==
  /\ At(p, "ensure_indexes_exist", "POST")
  /\ \E ok \in IndexOutcomes :
       LET logged == Logged(req[p], Call("index", "POST /indexes", <<index_name(req[p])>>, ok))
       IN IF ok
          THEN /\ indexes' = [indexes EXCEPT ![index_name(req[p])] = Created(index_name(req[p]))]
               /\ req' = [req EXCEPT ![p] = Goto(logged, "PATCH")]
          ELSE /\ req' = [req EXCEPT ![p] = Raise(logged, "IndexError")]
               /\ UNCHANGED indexes
  /\ UNCHANGED <<storeVars, indexVars, pre, prev, storeFaults, indexFaults, workers>>

\* await self._request("PATCH", f"/indexes/{index_name}/settings", json=settings_payload)
_create_index_patch(p) ==
  /\ At(p, "ensure_indexes_exist", "PATCH")
  /\ \E ok \in IndexOutcomes :
       LET logged == Logged(req[p], Call("index", "PATCH /indexes/settings", <<index_name(req[p])>>, ok))
       IN IF ok
          THEN /\ indexes' = [indexes EXCEPT ![index_name(req[p])].settings =
                                               settings_payload(index_name(req[p]))]
               /\ req' = [req EXCEPT ![p] = after_settings(logged)]
          ELSE /\ req' = [req EXCEPT ![p] = Raise(logged, "IndexError")]
               /\ UNCHANGED indexes
  /\ UNCHANGED <<storeVars, indexVars, pre, prev, storeFaults, indexFaults, workers>>

ensure_indexes_exist(p) ==
  \/ _create_index_get(p)
  \/ _create_index_post(p)
  \/ _create_index_patch(p)

\* what the application may find of an index at startup
IndexStates(n) == {NoIndex, Created(n), Configured(n), Stale(n)}

\* the index service as the application may find it at startup
InitIndexes ==
  /\ entries = [i \in EntryIds |-> NoRow]
  /\ entry_symptoms = <<>>
  /\ entry_incidents = <<>>
  /\ solutions = [i \in SolutionIds |-> NoRow]
  /\ solution_steps = <<>>
  /\ entriesIndex = {}
  /\ solutionsIndex = {}
  /\ indexes \in {f \in [IndexNames -> UNION {IndexStates(n) : n \in IndexNames}] :
                    \A n \in IndexNames : f[n] \in IndexStates(n)}
  /\ req = [p \in Procs |-> IdleReq]
  /\ pre = [p \in Procs |-> Store]
  /\ prev = NoSummary
  /\ storeFaults = FALSE
  /\ indexFaults \in BOOLEAN
  /\ workers = 1

NextIndexes == \E p \in Procs : ensure_indexes_exist(p) \/ respond(p)

\* ensure_indexes_exist called again and again
SpecIndexes == InitIndexes /\ [][NextIndexes]_vars

\* ------------------------------------------- the document builders alone
\* entries as get_with_relations loads them: symptoms in order_index order
EntryObjects ==
  {[id |-> 1, title |-> t, workflow_state |-> w, created_by |-> "alice", merged_into_id |-> None,
    symptoms |-> [i \in DOMAIN l |-> [entry_id |-> 1, description |-> l[i], order_index |-> i - 1]],
    incidents |-> <<>>] :
     t \in Titles, w \in WorkflowState, l \in SeqsUpTo({"disk full", "oom killed"}, MaxDocRows)}

\* solutions as get_with_steps loads them: steps in order_index order
SolutionObjects ==
  {[id |-> 1, entry_id |-> 1, title |-> t, created_by |-> "alice",
    steps |-> [i \in DOMAIN l |-> [solution_id |-> 1, order_index |-> i - 1, action |-> l[i][1],
                                   expected_result |-> l[i][2]]]] :
     t \in Titles, l \in SeqsUpTo({"restart", "reboot"} \X {None, "up"}, MaxDocRows)}

InitDocs ==
  /\ entries = [i \in EntryIds |-> NoRow]
  /\ entry_symptoms = <<>>
  /\ entry_incidents = <<>>
  /\ solutions = [i \in SolutionIds |-> NoRow]
  /\ solution_steps = <<>>
  /\ entriesIndex = {}
  /\ solutionsIndex = {}
  /\ req \in {[p \in Procs |-> IF p = ProcOrder[1] THEN c ELSE IdleReq] :
                 c \in {NewReq("_entry_to_search_doc", 1, [entry |-> e], "call") : e \in EntryObjects}
                       \cup {NewReq("_solution_to_search_doc", 1, [solution |-> o], "call") :
                               o \in SolutionObjects}}
  /\ indexes = [n \in IndexNames |-> Configured(n)]
  /\ pre = [p \in Procs |-> Store]
  /\ prev = NoSummary
  /\ storeFaults = FALSE
  /\ indexFaults = FALSE
  /\ workers = 1

\* doc = self._entry_to_search_doc(entry)
build_entry_doc(p) ==
  /\ At(p, "_entry_to_search_doc", "call")
  /\ LET doc == _entry_to_search_doc(req[p].arg.entry)
     IN req' = [req EXCEPT ![p].pc = "done",
                           ![p].result = IF doc = AttributeError THEN "AttributeError" ELSE "ok",
                           ![p].ret = doc]
  /\ UNCHANGED <<storeVars, indexVars, pre, prev, storeFaults, indexFaults, workers, indexes>>

\* doc = self._solution_to_search_doc(solution)
build_solution_doc(p) ==
  /\ At(p, "_solution_to_search_doc", "call")
  /\ req' = [req EXCEPT ![p].pc = "done", ![p].result = "ok",
                        ![p].ret = _solution_to_search_doc(req[p].arg.solution)]
  /\ UNCHANGED <<storeVars, indexVars, pre, prev, storeFaults, indexFaults, workers, indexes>>

NextDocs == \E p \in Procs : build_entry_doc(p) \/ build_solution_doc(p)

\* the two document builders applied to loaded entries and solutions
SpecDocs == InitDocs /\ [][NextDocs]_vars

\* ------------------------------------------------------------------ search
\* variant of the loop without the `is not None` test
filter_parts_all(items) == [i \in DOMAIN items |-> items[i][1] \o " = \"" \o items[i][2] \o "\""]

RECURSIVE filter_parts(_)
\* the loop over filters.items(): one clause f'{key} = "{value}"' for every value that
\* is not None
filter_parts(items) ==
  IF items = <<>> THEN <<>>
  ELSE LET key == items[1][1]
           value == items[1][2]
       IN (IF value # None THEN <<key \o " = \"" \o value \o "\"">> ELSE <<>>)
            \o filter_parts(Tail(items))

\* the payload search_entries and search_solutions build; filters is an optional dict,
\* its items the key/value pairs in iteration order
search_payload(query, filters, limit, offset) ==
  LET payload == [q |-> query, limit |-> limit, offset |-> offset, showRankingScore |-> TRUE]
  IN IF ~filters.is_none /\ filters.items # <<>> /\ filter_parts(filters.items) # <<>>
     THEN payload @@ [filter |-> join(" AND ", filter_parts(filters.items))]
     ELSE payload

\* the filter fields of the entries index
EntryFilterFields == <<"severity", "workflow_state", "created_by">>
\* the values requests give the filter fields of the two indexes
FilterValues(key) ==
  CASE key = "severity" -> {"high"}
    [] key = "workflow_state" -> {"draft"}
    [] key = "created_by" -> {"alice"}
    [] key = "solution_type" -> {"workaround"}
    [] key = "entry_id" -> {str(i) : i \in EntryIds}

\* the dicts a caller of the client may pass: up to two of the fields, in any order,
\* values possibly None
FilterDicts(fields) ==
  LET keys == {fields[i] : i \in DOMAIN fields}
      pairs == {kv \in keys \X (UNION {FilterValues(k) : k \in keys} \cup {None}) :
                  kv[2] = None \/ kv[2] \in FilterValues(kv[1])}
  IN {[is_none |-> TRUE, items |-> <<>>]} \cup
     {[is_none |-> FALSE, items |-> l] :
        l \in {s \in SeqsUpTo(pairs, MaxFilters) : \A i, j \in DOMAIN s : s[i][1] = s[j][1] => i = j}}

\* the hits the index service may answer with: documents of the index, each once
Hits(index) ==
  {l \in SeqsUpTo(index, Cardinality(index)) : \A i, j \in DOMAIN l : l[i] = l[j] => i = j}

\* MeilisearchClient.search_entries / search_solutions on one index: the payload is
\* built and POSTed; a failed request raises
client_search(p, op, uid, index, fields) ==
  \E query \in {"disk"}, filters \in FilterDicts(fields), limit \in {20}, offset \in {0},
     ok \in IndexOutcomes, hits \in Hits(index) :
    LET payload == search_payload(query, filters, limit, offset)
        r == Logged(NewReq(op, 0, [query |-> query, filters |-> filters, limit |-> limit,
                                   offset |-> offset], ""),
                    Call("index", "search", <<uid, payload>>, ok))
    IN /\ Begin(p, IF ok THEN [r EXCEPT !.pc = "done", !.result = "ok",
                                        !.ret = [hits |-> hits, estimatedTotalHits |-> Len(hits)]]
                   ELSE Raise(r, "IndexError"))
       /\ UNCHANGED <<storeVars, indexVars>>

search_entries(p) == client_search(p, "search_entries", "entries", entriesIndex, EntryFilterFields)

search_solutions(p) ==
  client_search(p, "search_solutions", "solutions", solutionsIndex, <<"solution_type", "entry_id">>)

\* the optional filters of a search request, every field of SearchFilters and of
\* SolutionSearchFilters optional too; entry_id is a UUID here, not yet a string
RequestFilters(uid) ==
  {[is_none |-> TRUE, value |-> NoArg]} \cup
  {[is_none |-> FALSE, value |-> f] :
     f \in IF uid = "entries"
           THEN [severity : FilterValues("severity") \cup {None},
                 workflow_state : FilterValues("workflow_state") \cup {None},
                 created_by : FilterValues("created_by") \cup {None}]
           ELSE [solution_type : FilterValues("solution_type") \cup {None},
                 entry_id : {[is_none |-> TRUE, value |-> 0]}
                              \cup {[is_none |-> FALSE, value |-> i] : i \in EntryIds}]}

\* the filters dict the entries endpoint passes to the client:
\* request.filters.model_dump(exclude_none=True), the fields in declaration order
entry_filters(request_filters) ==
  IF request_filters.is_none THEN [is_none |-> TRUE, items |-> <<>>]
  ELSE [is_none |-> FALSE,
        items |-> SelectSeq([i \in DOMAIN EntryFilterFields |->
                               <<EntryFilterFields[i], request_filters.value[EntryFilterFields[i]]>>],
                            LAMBDA kv : kv[2] # None)]

\* the filters dict the solutions endpoint passes: the dump, entry_id converted by str
solution_filters(request_filters) ==
  IF request_filters.is_none THEN [is_none |-> TRUE, items |-> <<>>]
  ELSE LET f == request_filters.value
       IN [is_none |-> FALSE,
           items |-> (IF f.solution_type # None THEN <<(<<"solution_type", f.solution_type>>)>>
                      ELSE <<>>)
                     \o (IF ~f.entry_id.is_none THEN <<(<<"entry_id", str(f.entry_id.value)>>)>>
                         ELSE <<>>)]

SearchResponse(results, total, request) ==
  [results |-> results, total |-> total, query |-> request.query, limit |-> request.limit,
   offset |-> request.offset]

\* variant that swallows the failure and answers with an empty result
empty_response(r) ==
  [r EXCEPT !.pc = "done", !.result = "ok",
            !.ret = [results |-> <<>>, total |-> 0, query |-> r.arg.query, limit |-> r.arg.limit,
                     offset |-> r.arg.offset]]

\* raise HTTPException(status_code=500, detail=f"Search failed: {str(e)}")
HTTPException(r) ==
  [r EXCEPT !.pc = "done", !.result = "HTTPException",
            !.ret = [status_code |-> 500, detail |-> "Search failed"]]

\* POST /search/entries: the client is called inside try/except Exception
endpoint_search_entries(p) ==
  \E query \in {"disk"}, request_filters \in RequestFilters("entries"),
     limit \in {20}, offset \in {0}, ok \in IndexOutcomes, hits \in Hits(entriesIndex) :
    LET request == [query |-> query, filters |-> request_filters, limit |-> limit, offset |-> offset]
        payload == search_payload(query, entry_filters(request_filters), limit, offset)
        r == Logged(NewReq("POST /search/entries", 0, request, ""),
                    Call("index", "search", <<"entries", payload>>, ok))
        results == [i \in DOMAIN hits |->
                      [id |-> hits[i].id, title |-> hits[i].title,
                       workflow_state |-> hits[i].workflow_state, created_by |-> hits[i].created_by]]
    IN /\ Begin(p, IF ok THEN [r EXCEPT !.pc = "done", !.result = "ok",
                                        !.ret = SearchResponse(results, Len(hits), request)]
                   ELSE HTTPException(r))
       /\ UNCHANGED <<storeVars, indexVars>>

\* POST /search/solutions
endpoint_search_solutions(p) ==
  \E query \in {"disk"}, request_filters \in RequestFilters("solutions"),
     limit \in {20}, offset \in {0}, ok \in IndexOutcomes, hits \in Hits(solutionsIndex) :
    LET request == [query |-> query, filters |-> request_filters, limit |-> limit, offset |-> offset]
        payload == search_payload(query, solution_filters(request_filters), limit, offset)
        r == Logged(NewReq("POST /search/solutions", 0, request, ""),
                    Call("index", "search", <<"solutions", payload>>, ok))
        results == [i \in DOMAIN hits |->
                      [id |-> hits[i].id, title |-> hits[i].title, entry_id |-> hits[i].entry_id]]
    IN /\ Begin(p, IF ok THEN [r EXCEPT !.pc = "done", !.result = "ok",
                                        !.ret = SearchResponse(results, Len(hits), request)]
                   ELSE HTTPException(r))
       /\ UNCHANGED <<storeVars, indexVars>>

InitSearch == InitStore /\ storeFaults = FALSE /\ indexFaults \in BOOLEAN /\ workers = 1

NextSearch ==
  \E p \in Procs :
    \/ search_entries(p) \/ search_solutions(p)
    \/ endpoint_search_entries(p) \/ endpoint_search_solutions(p)
    \/ create_entry(p) \/ entry_reread(p) \/ _index_entry(p)
    \/ create_solution(p) \/ solution_reread(p) \/ _index_solution(p)
    \/ respond(p)

\* searches of the two indexes between creations of entries and solutions
SpecSearch == InitSearch /\ [][NextSearch]_vars

\* ------------------------------------------------------ concurrent requests
\* every entry has been created (its document indexed as a draft) and may have been moved
\* on by transition_workflow since; no request is in flight
InitConcurrent ==
  /\ entries \in [EntryIds -> [title : {"t1"}, workflow_state : {"draft", "in_review", "published"},
                               created_by : {"alice"}, merged_into_id : {None}]]
  /\ entry_symptoms = <<>>
  /\ entry_incidents = <<>>
  /\ solutions = [i \in SolutionIds |-> NoRow]
  /\ solution_steps = <<>>
  /\ entriesIndex = {[_entry_to_search_doc(repo_get_with_relations(i))
                         EXCEPT !.workflow_state = "draft"] : i \in EntryIds}
  /\ solutionsIndex = {}
  /\ req = [p \in Procs |-> IdleReq]
  /\ indexes = [n \in IndexNames |-> Configured(n)]
  /\ pre = [p \in Procs |-> Store]
  /\ prev = NoSummary
  /\ storeFaults = FALSE
  /\ indexFaults = FALSE
  /\ workers = 2

NextConcurrent ==
  \E p \in Procs :
    \/ update_entry(p) \/ entry_reread(p) \/ _index_entry(p)
    \/ delete_entry(p) \/ _delete_entry_from_index(p)
    \/ transition_workflow(p)

\* two requests to the entry service, the second arriving while the first is in flight
\* or after it has ended, their awaited calls interleaved; the store and the index
\* always available
SpecConcurrent == InitConcurrent /\ [][NextConcurrent]_vars

\* ================================================================ properties
Done(p, op) == req[p].op = op /\ req[p].pc = "done"

StoreCalls(r) == SelectSeq(r.calls, LAMBDA c : c.to = "store")
IndexCalls(r) == SelectSeq(r.calls, LAMBDA c : c.to = "index")

\* the entry the request of p names existed in the store when the request began
EntryExisted(p) == req[p].id \in EntryIds /\ pre[p].entries[req[p].id] # NoRow

\* store and index are as they were when the request of p began
NothingChangedSince(p) == Store = pre[p]

\* the transition table as section 4.1 states it
TransitionTable ==
  {<<"draft", "in_review">>, <<"draft", "retired">>,
   <<"in_review", "draft">>, <<"in_review", "published">>, <<"in_review", "retired">>,
   <<"published", "retired">>, <<"published", "merged">>}

\* C1: a transition_workflow on an existing entry whose (current, requested) pair is
\* not in the transition table ends in WorkflowError, without a store write and with
\* the store (and the index) exactly as they were.
C1_IllegalTransitionRejected ==
  \A p \in Procs :
    (/\ Done(p, "transition_workflow")
     /\ EntryExisted(p)
     /\ <<StateIn(pre[p], req[p].id), req[p].arg.new_state>> \notin TransitionTable)
    => /\ req[p].result = "WorkflowError"
       /\ req[p].calls = <<>>
       /\ NothingChangedSince(p)

C1_Witness ==
  \E p \in Procs :
    /\ Done(p, "transition_workflow")
    /\ EntryExisted(p)
    /\ StateIn(pre[p], req[p].id) = "published"
    /\ req[p].arg.new_state = "draft"
    /\ req[p].result = "WorkflowError"

\* C2: retired and merged are terminal: no step of any operation changes the
\* workflow_state of an entry that is retired or merged.
C2_TerminalStatesNeverLeft ==
  [][\A i \in EntryIds :
       (entries[i] # NoRow /\ entries[i].workflow_state \in {"retired", "merged"})
       => entries'[i].workflow_state = entries[i].workflow_state]_vars

\* C3: once create_entry has written the entry, its stored workflow_state is draft,
\* whatever the payload carried, and so is that of the entry it returns.
C3_CreatedInDraft ==
  \A p \in Procs :
    (req[p].op = "create_entry" /\ req[p].id \in EntryIds)
    => /\ entries[req[p].id].workflow_state = "draft"
       /\ (req[p].pc = "done" /\ req[p].result = "ok") => req[p].ret.workflow_state = "draft"

C3_Witness ==
  \E p \in Procs :
    /\ Done(p, "create_entry")
    /\ req[p].result = "ok"
    /\ req[p].arg.entry_data.workflow_state = "published"
    /\ entries[req[p].id].workflow_state = "draft"

\* C4: a transition_workflow on an existing entry whose (current, requested) pair is
\* in the transition table succeeds with exactly one store write, which carries the
\* new state and approved_by, and the stored workflow_state is then the new state.
C4_LegalTransitionApplied ==
  \A p \in Procs :
    (/\ Done(p, "transition_workflow")
     /\ EntryExisted(p)
     /\ <<StateIn(pre[p], req[p].id), req[p].arg.new_state>> \in TransitionTable)
    => /\ req[p].result = "ok"
       /\ entries[req[p].id].workflow_state = req[p].arg.new_state
       /\ req[p].calls = <<Call("store", "update_workflow_state",
                                <<req[p].arg.new_state, req[p].arg.approved_by>>, TRUE)>>

C4_Witness ==
  \E p \in Procs :
    /\ Done(p, "transition_workflow")
    /\ StateIn(pre[p], req[p].id) = "published"
    /\ req[p].arg.new_state = "merged"
    /\ req[p].arg.approved_by = "alice"
    /\ req[p].result = "ok"
    /\ entries[req[p].id].workflow_state = "merged"

\* C5: when transition_workflow(id, "retired") is called on an entry in draft,
\* in_review or published and then called again, the first call succeeded, the
\* second ends in WorkflowError, and the entry is retired after the first and after
\* the second.
C5_RetireTwice ==
  \A p \in Procs :
    (Done(p, "transition_workflow") /\ Repeats(req[p], prev))
    => /\ prev.result = "ok"
       /\ pre[p].entries[req[p].id].workflow_state = "retired"
       /\ req[p].result = "WorkflowError"
       /\ entries[req[p].id].workflow_state = "retired"

C5_Witness ==
  \E p \in Procs :
    /\ Done(p, "transition_workflow")
    /\ Repeats(req[p], prev)
    /\ prev.result = "ok"
    /\ req[p].result = "WorkflowError"

\* C6: update_entry on an existing entry succeeds when the entry is in draft or
\* in_review and ends in WorkflowError when it is published, retired or merged,
\* whatever the payload; the rejected update makes no store write and no index call.
C6_UpdateGuard ==
  \A p \in Procs :
    (Done(p, "update_entry") /\ EntryExisted(p))
    => IF StateIn(pre[p], req[p].id) \in {"draft", "in_review"}
       THEN req[p].result = "ok"
       ELSE /\ req[p].result = "WorkflowError"
            /\ req[p].calls = <<>>
            /\ NothingChangedSince(p)

C6_Witness ==
  \E p \in Procs :
    /\ Done(p, "update_entry")
    /\ StateIn(pre[p], req[p].id) = "published"
    /\ req[p].arg.entry_data # <<>>
    /\ req[p].result = "WorkflowError"

MutatingOps ==
  {"create_entry", "update_entry", "delete_entry",
   "create_solution", "update_solution", "delete_solution"}

\* the step taken is an index call of the request of p
IndexCallStep(p) ==
  /\ req[p].pc \notin {"idle", "done"}
  /\ req'[p].op = req[p].op
  /\ Len(IndexCalls(req'[p])) = Len(IndexCalls(req[p])) + 1

\* what the request of p goes on with after its index call, whatever the call's outcome
AfterIndexCall(p) ==
  CASE req[p].op \in {"create_entry", "update_entry", "create_solution", "update_solution"}
         -> req'[p].pc = "done" /\ req'[p].result = "ok" /\ req'[p].ret = req[p].full
    [] req[p].op = "delete_entry"
         -> req'[p].pc = "done" /\ req'[p].result = "ok" /\ req'[p].ret = [value |-> TRUE]
    [] req[p].op = "delete_solution"
         -> req'[p].pc = "repo.delete" /\ req'[p].result = "pending" /\ req'[p].ret = req[p].ret

\* a mutating request that made an index call has succeeded, and what it wrote is in the store
IndexOutcomeIgnored(p) ==
  (req[p].pc = "done" /\ req[p].op \in MutatingOps /\ IndexCalls(req[p]) # <<>>)
  => /\ req[p].result = "ok"
     /\ req[p].op \in {"create_entry", "update_entry"} => get_entry(req[p].id) = req[p].ret
     /\ req[p].op = "delete_entry" => entries[req[p].id].workflow_state = "retired"
     /\ req[p].op \in {"create_solution", "update_solution"} => get_solution(req[p].id) = req[p].ret
     /\ req[p].op = "delete_solution" => get_solution(req[p].id) = NoRow

\* C7: in create/update/delete of an entry or a solution the index call, failed or
\* not, leaves the store as it is and the request continues to the same result; the
\* operation succeeds, and get_entry after a create_entry whose index call failed
\* returns the created entry.
C7_IndexFailureIsolated ==
  /\ [](\A p \in Procs : IndexOutcomeIgnored(p))
  /\ [][\A p \in Procs : IndexCallStep(p) =>
          /\ storeVars' = storeVars
          /\ AfterIndexCall(p)
          /\ ~req'[p].calls[Len(req'[p].calls)].ok => indexVars' = indexVars]_vars

C7_Witness ==
  \E p \in Procs :
    /\ Done(p, "create_entry")
    /\ IndexCalls(req[p]) # <<>>
    /\ ~IndexCalls(req[p])[1].ok
    /\ req[p].result = "ok"
    /\ entriesIndex = {}
    /\ get_entry(req[p].id) = req[p].ret

\* C8: when a store write of a mutating operation fails, the operation fails and no
\* request has been sent to the index.
C8_FailedWriteNotPropagated ==
  \A p \in Procs :
    (/\ req[p].pc = "done"
     /\ req[p].op \in MutatingOps
     /\ \E i \in DOMAIN req[p].calls : req[p].calls[i].to = "store" /\ ~req[p].calls[i].ok)
    => /\ req[p].result # "ok"
       /\ IndexCalls(req[p]) = <<>>

\* C9: in every mutating operation each index call comes after the operation's store
\* writes: no index call without a store write before it, no store write after it.
C9_IndexCallAfterStoreWrite ==
  \A p \in Procs :
    req[p].op \in MutatingOps =>
      \A i \in DOMAIN req[p].calls :
        req[p].calls[i].to = "index" =>
          /\ \E j \in 1..(i - 1) : req[p].calls[j].to = "store" /\ req[p].calls[j].ok
          /\ \A j \in DOMAIN req[p].calls : req[p].calls[j].to = "store" => j < i

\* C10: after a delete_entry that succeeded and whose index call went through, the
\* entries index holds no document with the entry's id, and get_entry still returns
\* the entry, with workflow_state retired.
C10_SoftDelete ==
  \A p \in Procs :
    (/\ Done(p, "delete_entry")
     /\ req[p].result = "ok"
     /\ IndexCalls(req[p]) # <<>>
     /\ IndexCalls(req[p])[1].ok)
    => /\ \A d \in entriesIndex : d.id # str(req[p].id)
       /\ get_entry(req[p].id) # NoRow
       /\ get_entry(req[p].id).workflow_state = "retired"

C10_Witness ==
  \E p \in Procs :
    /\ Done(p, "delete_entry")
    /\ req[p].result = "ok"
    /\ IndexCalls(req[p])[1].ok
    /\ \E d \in pre[p].entriesIndex : d.id = str(req[p].id)
    /\ StateIn(pre[p], req[p].id) = "published"
    /\ get_entry(req[p].id).workflow_state = "retired"

\* no request is between its first and its last step
Quiescent == \A p \in Procs : req[p].pc \in {"idle", "done"}

\* C11: with the index always available and no operation under way, no entry whose
\* stored workflow_state is retired has a document in the entries index.
C11_RetiredNotIndexed ==
  Quiescent =>
    \A i \in EntryIds :
      (entries[i] # NoRow /\ entries[i].workflow_state = "retired")
      => \A d \in entriesIndex : d.id # str(i)

\* the document section 4.2 projects from a re-read entry: its symptom texts joined
\* by one space, in the order of the relation
EntryProjection(entry) ==
  [id |-> str(entry.id), title |-> entry.title, workflow_state |-> entry.workflow_state,
   created_by |-> entry.created_by,
   symptoms |-> join(" ", [i \in DOMAIN entry.symptoms |-> entry.symptoms[i].description])]

\* C12: with the index available, after a create_entry or update_entry that
\* succeeded the entries index holds exactly one document with the entry's id, equal
\* to the projection of the re-read entry, with or without symptoms.
C12_DocumentMatchesEntry ==
  \A p \in Procs :
    (req[p].pc = "done" /\ req[p].op \in {"create_entry", "update_entry"} /\ req[p].result = "ok")
    => {d \in entriesIndex : d.id = str(req[p].id)} = {EntryProjection(get_entry(req[p].id))}

\* C13: building the document of an entry never raises, and its symptoms field is the
\* entry's symptom texts joined by a single space in order_index order, the empty
\* string when the entry has no symptoms.
C13_SymptomsJoined ==
  \A p \in Procs :
    Done(p, "_entry_to_search_doc")
    => /\ req[p].result = "ok"
       /\ req[p].ret.symptoms =
            join(" ", [i \in DOMAIN req[p].arg.entry.symptoms |->
                         req[p].arg.entry.symptoms[i].description])

RECURSIVE Concat(_)
\* the strings of a list put end to end
Concat(list) == IF list = <<>> THEN "" ELSE list[1] \o Concat(Tail(list))

Coalesced(text) == IF text = None THEN "" ELSE text

\* C14 as stated: steps_text is each step's action followed by its expected_result
\* (null as the empty string), step after step in order_index order, put end to end.
C14_StepsConcatenated ==
  \A p \in Procs :
    Done(p, "_solution_to_search_doc")
    => req[p].ret.steps_text =
         Concat([i \in DOMAIN req[p].arg.solution.steps |->
                   req[p].arg.solution.steps[i].action
                   \o Coalesced(req[p].arg.solution.steps[i].expected_result)])

\* C14: steps_text is the steps' texts joined by a single space in order_index order,
\* a step's text being its action, a single space and its expected_result (null as
\* the empty string); it is the empty string when the solution has no steps.
C14_StepsJoined ==
  \A p \in Procs :
    Done(p, "_solution_to_search_doc")
    => req[p].ret.steps_text =
         join(" ", [i \in DOMAIN req[p].arg.solution.steps |->
                      req[p].arg.solution.steps[i].action \o " "
                      \o Coalesced(req[p].arg.solution.steps[i].expected_result)])

C14_Witness ==
  \E p \in Procs :
    /\ Done(p, "_solution_to_search_doc")
    /\ Len(req[p].arg.solution.steps) = 2
    /\ req[p].arg.solution.steps[1].action = "restart"
    /\ req[p].arg.solution.steps[1].expected_result = None
    /\ req[p].arg.solution.steps[2].action = "reboot"
    /\ req[p].arg.solution.steps[2].expected_result = "up"
    /\ req[p].ret.steps_text = "restart  reboot up"

\* C15: a mutating operation sends at most one request to the search index, whether
\* the request succeeds or fails: a failed index call is not retried.
C15_AtMostOneIndexCall ==
  \A p \in Procs :
    req[p].op \in MutatingOps => Len(IndexCalls(req[p])) <= 1

C15_Witness ==
  \E p \in Procs :
    /\ Done(p, "update_solution")
    /\ req[p].result = "ok"
    /\ Len(IndexCalls(req[p])) = 1
    /\ ~IndexCalls(req[p])[1].ok

EntryIdOps ==
  {"get_entry", "update_entry", "delete_entry", "add_symptom", "add_incident",
   "transition_workflow", "get_entry_solutions"}
SolutionIdOps == {"get_solution", "update_solution", "delete_solution", "add_step"}
StepIdOps == {"update_step", "delete_step"}

\* the entity the request of p names did not exist in the store when the request began
TargetMissing(p) ==
  CASE req[p].op \in EntryIdOps -> pre[p].entries[req[p].id] = NoRow
    [] req[p].op = "create_solution" -> pre[p].entries[req[p].arg.entry_id] = NoRow
    [] req[p].op \in SolutionIdOps -> pre[p].solutions[req[p].id] \in {NoRow, Gone}
    [] req[p].op \in StepIdOps ->
         \A i \in DOMAIN pre[p].solution_steps : StepKey(pre[p].solution_steps[i]) # req[p].id
    [] OTHER -> FALSE

\* C16: an operation that takes an entity id and is given the id of no entity in the
\* store ends in NotFoundError, with no store write, no index call, and the store and
\* the index as they were.
C16_NotFound ==
  \A p \in Procs :
    (req[p].pc = "done" /\ TargetMissing(p))
    => /\ req[p].result = "NotFoundError"
       /\ req[p].calls = <<>>
       /\ NothingChangedSince(p)

C16_Witness ==
  \E p \in Procs :
    /\ Done(p, "update_solution")
    /\ pre[p].solutions[req[p].id] = Gone
    /\ pre[p].entries[1] # NoRow
    /\ req[p].result = "NotFoundError"

\* the legal next states of a state, in any order
LegalLists(state) ==
  {l \in SeqsUpTo(WorkflowState, Cardinality(WorkflowState)) :
     /\ \A i, j \in DOMAIN l : l[i] = l[j] => i = j
     /\ {l[i] : i \in DOMAIN l} = {t \in WorkflowState : <<state, t>> \in TransitionTable}}

\* C17: the message of the WorkflowError of a rejected transition lists exactly the
\* legal next states of the entry's current state, and reads "no valid transitions"
\* in their place when the current state is terminal.
C17_MessageListsLegalStates ==
  \A p \in Procs :
    (Done(p, "transition_workflow") /\ req[p].result = "WorkflowError")
    => LET current == StateIn(pre[p], req[p].id)
           head == "Invalid transition from " \o current \o " to " \o req[p].arg.new_state
                   \o ". Valid transitions: "
       IN IF current \in {"retired", "merged"}
          THEN req[p].ret.message = head \o "no valid transitions"
          ELSE \E l \in LegalLists(current) : req[p].ret.message = head \o join(", ", l)

\* every request the call of p sent was answered by the index service
IndexAnswered(p) == \A i \in DOMAIN req[p].calls : req[p].calls[i].ok

\* C18: against an index service that answers, ensure_indexes_exist raises no error,
\* and called again right after a call that returned it leaves the indexes and their
\* settings exactly as that call left them.
C18_EnsureIndexesIdempotent ==
  \A p \in Procs :
    (Done(p, "ensure_indexes_exist") /\ IndexAnswered(p))
    => /\ req[p].result = "ok"
       /\ (prev.op = "ensure_indexes_exist" /\ prev.result = "ok") => indexes = pre[p].indexes

C18_Witness ==
  \E p \in Procs :
    /\ Done(p, "ensure_indexes_exist")
    /\ IndexAnswered(p)
    /\ prev.op = "ensure_indexes_exist" /\ prev.result = "ok"
    /\ req[p].result = "ok"
    /\ indexes = [n \in IndexNames |-> Configured(n)]
    /\ Len(req[p].calls) = 4

\* C19: after a delete_solution that succeeded and whose index call went through,
\* the solution's row is gone from the store (get_solution finds nothing) and the
\* solutions index holds no document with the solution's id.
C19_HardDelete ==
  \A p \in Procs :
    (/\ Done(p, "delete_solution")
     /\ req[p].result = "ok"
     /\ IndexCalls(req[p]) # <<>>
     /\ IndexCalls(req[p])[1].ok)
    => /\ get_solution(req[p].id) = NoRow
       /\ sol_repo_get(req[p].id) = NoRow
       /\ \A d \in solutionsIndex : d.id # str(req[p].id)

C19_Witness ==
  \E p \in Procs :
    /\ Done(p, "delete_solution")
    /\ req[p].result = "ok"
    /\ IndexCalls(req[p])[1].ok
    /\ pre[p].solutions[req[p].id] \notin {NoRow, Gone}
    /\ \E d \in pre[p].solutionsIndex : d.id = str(req[p].id)
    /\ get_solution(req[p].id) = NoRow
    /\ solutionsIndex = {}

\* C20: in every store state an entry's merged_into reference is non-null exactly
\* when its workflow_state is merged.
C20_MergedIntoIffMerged ==
  \A i \in EntryIds :
    entries[i] # NoRow =>
      (entries[i].merged_into_id # None <=> entries[i].workflow_state = "merged")

\* ---------------------------------------------------------------- search
ClientSearchOps == {"search_entries", "search_solutions"}
EndpointSearchOps == {"POST /search/entries", "POST /search/solutions"}

\* the filter fields a search was given, in iteration order, values as the index sees them
GivenFilters(r) ==
  CASE r.op \in ClientSearchOps ->
         IF r.arg.filters.is_none THEN <<>> ELSE r.arg.filters.items
    [] r.op = "POST /search/entries" ->
         IF r.arg.filters.is_none THEN <<>>
         ELSE [i \in DOMAIN EntryFilterFields |->
                 <<EntryFilterFields[i], r.arg.filters.value[EntryFilterFields[i]]>>]
    [] r.op = "POST /search/solutions" ->
         IF r.arg.filters.is_none THEN <<>>
         ELSE <<(<<"solution_type", r.arg.filters.value.solution_type>>),
                (<<"entry_id", IF r.arg.filters.value.entry_id.is_none THEN None
                               ELSE ToString(r.arg.filters.value.entry_id.value)>>)>>

NonNull(items) == SelectSeq(items, LAMBDA kv : kv[2] # None)

RECURSIVE AndOf(_, _)
\* the first n clauses, each field = "value", with " AND " between neighbours
AndOf(items, n) ==
  LET clause == items[n][1] \o " = " \o "\"" \o items[n][2] \o "\""
  IN IF n = 1 THEN clause ELSE AndOf(items, n - 1) \o " AND " \o clause

\* the payload of the one search request a completed search sent
SentPayload(r) == r.calls[1].args[2]

\* C21: a search sends exactly one request; its payload has a filter key exactly when
\* some filter field is non-null, and the filter is then one clause field = "value" per
\* non-null field, in iteration order, joined by " AND "
C21_FilterExpression ==
  \A p \in Procs :
    (req[p].op \in ClientSearchOps \cup EndpointSearchOps /\ req[p].pc = "done") =>
      LET given == NonNull(GivenFilters(req[p]))
      IN /\ Len(req[p].calls) = 1
         /\ IF given = <<>> THEN "filter" \notin DOMAIN SentPayload(req[p])
            ELSE /\ "filter" \in DOMAIN SentPayload(req[p])
                 /\ SentPayload(req[p]).filter = AndOf(given, Len(given))

\* a client search given two non-null fields, not in declaration order
C21_Witness ==
  \E p \in Procs :
    /\ Done(p, "search_entries")
    /\ req[p].arg.filters.items = <<(<<"workflow_state", "draft">>), (<<"severity", "high">>)>>
    /\ SentPayload(req[p]).filter = "workflow_state = \"draft\" AND severity = \"high\""

\* C22: a search request whose index call failed ends in an error response (HTTP 500) that
\* carries no result list, and a search answers with results only when the index answered
C22_SearchFailureSurfaced ==
  \A p \in Procs :
    (req[p].op \in EndpointSearchOps /\ req[p].pc = "done") =>
      IF req[p].calls[1].ok
      THEN req[p].result = "ok" /\ "results" \in DOMAIN req[p].ret
      ELSE /\ req[p].result = "HTTPException"
           /\ req[p].ret.status_code = 500
           /\ "results" \notin DOMAIN req[p].ret

\* a solutions search whose request to the index failed while the index held a document
C22_Witness ==
  \E p \in Procs :
    /\ req[p].op = "POST /search/solutions"
    /\ req[p].pc = "done"
    /\ ~req[p].calls[1].ok
    /\ solutionsIndex # {}

\* ------------------------------------------------------ concurrent requests
\* the request of p is a transition_workflow about to write, and this step is its write
TransitionWrite(p) ==
  /\ At(p, "transition_workflow", "repo.update_workflow_state")
  /\ req'[p].pc = "done"

\* C23: while only transition_workflow calls are in flight, every change a
\* transition_workflow write makes to an entry's stored workflow_state is an edge of the
\* transition table from the state stored just before the write
C23_TransitionsAtomic ==
  [][\A p \in Procs :
       (/\ \A q \in Procs : req[q].op \in {"idle", "transition_workflow"}
        /\ TransitionWrite(p)
        /\ entries'[req[p].id].workflow_state # entries[req[p].id].workflow_state)
       => <<entries[req[p].id].workflow_state, entries'[req[p].id].workflow_state>>
            \in TransitionTable]_vars

\* ------------------------------------------------------------ frame of the index
\* C24: in a sequential run, a transition_workflow makes no call to the index at any
\* point of any path, and both indexes stay as they were when it began
C24_TransitionLeavesIndex ==
  \A p \in Procs :
    req[p].op = "transition_workflow"
    => /\ IndexCalls(req[p]) = <<>>
       /\ entriesIndex = pre[p].entriesIndex
       /\ solutionsIndex = pre[p].solutionsIndex

\* a transition that succeeded on an entry whose document still shows the state it was
\* indexed with
C24_Witness ==
  \E p \in Procs :
    /\ Done(p, "transition_workflow")
    /\ req[p].result = "ok"
    /\ entries[req[p].id].workflow_state = "published"
    /\ \E d \in entriesIndex : d.id = str(req[p].id) /\ d.workflow_state = "draft"

\* ------------------------------------------------------ ensure_indexes_exist
\* the requests r has sent for index n, each as <<request, whether it went through>>
RequestsFor(r, n) ==
  LET sent == SelectSeq(r.calls, LAMBDA c : c.args = <<n>>)
  IN [i \in DOMAIN sent |-> <<sent[i].fn, sent[i].ok>>]

\* the request sequences C25 allows for one index: the probe first; the create only
\* after a probe answered for a missing index (404); the settings after the probe of an
\* existing index or after the create; nothing after a request that failed
AllowedRequests(missing) ==
  IF missing
  THEN {<<(<<"GET /indexes", FALSE>>)>>,
        <<(<<"GET /indexes", TRUE>>), (<<"POST /indexes", FALSE>>)>>,
        <<(<<"GET /indexes", TRUE>>), (<<"POST /indexes", TRUE>>), (<<"PATCH /indexes/settings", FALSE>>)>>,
        <<(<<"GET /indexes", TRUE>>), (<<"POST /indexes", TRUE>>), (<<"PATCH /indexes/settings", TRUE>>)>>}
  ELSE {<<(<<"GET /indexes", FALSE>>)>>,
        <<(<<"GET /indexes", TRUE>>), (<<"PATCH /indexes/settings", FALSE>>)>>,
        <<(<<"GET /indexes", TRUE>>), (<<"PATCH /indexes/settings", TRUE>>)>>}

IsPrefix(s, t) == Len(s) <= Len(t) /\ \A i \in DOMAIN s : s[i] = t[i]

Failed(requests) == requests # <<>> /\ ~requests[Len(requests)][2]

\* C25: for each index, what ensure_indexes_exist has sent so far begins an allowed
\* sequence, and once it has ended it has sent a whole one for entries and, unless
\* that failed, for solutions; it raises exactly when a request failed, and a failed
\* probe is then the only request for its index
C25_ProbeCreateSettings ==
  \A p \in Procs :
    req[p].op = "ensure_indexes_exist" =>
      LET sent(n) == RequestsFor(req[p], n)
          allowed(n) == AllowedRequests(pre[p].indexes[n] = NoIndex)
      IN /\ \A n \in IndexNames : \E t \in allowed(n) : IsPrefix(sent(n), t)
         /\ req[p].pc = "done" =>
              /\ sent("entries") \in allowed("entries")
              /\ IF Failed(sent("entries")) THEN sent("solutions") = <<>>
                 ELSE sent("solutions") \in allowed("solutions")
              /\ req[p].result = IF \E n \in IndexNames : Failed(sent(n)) THEN "IndexError" ELSE "ok"

\* the entries index was missing and is created and configured, then the probe of the
\* existing solutions index fails
C25_Witness ==
  \E p \in Procs :
    /\ Done(p, "ensure_indexes_exist")
    /\ pre[p].indexes["entries"] = NoIndex
    /\ pre[p].indexes["solutions"] # NoIndex
    /\ Len(RequestsFor(req[p], "entries")) = 3
    /\ RequestsFor(req[p], "solutions") = <<(<<"GET /indexes", FALSE>>)>>
    /\ req[p].result = "IndexError"

\* C26: with requests served one at a time, every document of the entries index has
\* workflow_state draft or in_review at every moment
C26_IndexedDraftOrInReview ==
  \A d \in entriesIndex : d.workflow_state \in {"draft", "in_review"}

\* an update_entry has indexed an entry that is in review, and the entry has been
\* published since with its document left as it was
C26_Witness ==
  \E i \in EntryIds :
    /\ entries[i] # NoRow
    /\ entries[i].workflow_state = "published"
    /\ \E d \in entriesIndex : d.id = str(i) /\ d.workflow_state = "in_review"

\* C27: once two update_entry calls on the same entry that were in flight together have
\* both returned, with every index call gone through, the entries index holds for the
\* entry exactly the projection of the entry as stored
C27_ConcurrentUpdatesIndexed ==
  \A p, q \in Procs :
    (/\ p # q
     /\ Done(p, "update_entry") /\ req[p].result = "ok"
     /\ Done(q, "update_entry") /\ req[q].result = "ok"
     /\ req[p].id = req[q].id)
    => {d \in entriesIndex : d.id = str(req[p].id)} = {EntryProjection(get_entry(req[p].id))}

\* the step is the update_entry of p writing its field changes to the store
UpdateWrite(p) == At(p, "update_entry", "repo.update") /\ req'[p].pc # "repo.update"

\* the step is the update_entry of p sending its document to the index
UpdateIndexed(p) ==
  /\ At(p, "update_entry", "_index_entry")
  /\ \E d \in entriesIndex' : d.id = str(req[p].id)

\* a delete_entry has retired entry i and removed its document
DeletedAndRemoved(i) ==
  /\ entries[i].workflow_state = "retired"
  /\ \A d \in entriesIndex : d.id # str(i)
  /\ \E q \in Procs : Done(q, "delete_entry") /\ req[q].id = i /\ req[q].result = "ok"

\* C28: with update_entry in flight together with transition_workflow or delete_entry,
\* no update_entry writes its field changes while the stored workflow_state is
\* published, retired or merged, and none puts back the document of an entry that a
\* delete_entry has retired and removed from the index
C28_UpdateRespectsState ==
  [][\A p \in Procs :
       /\ UpdateWrite(p) => entries[req[p].id].workflow_state \in {"draft", "in_review"}
       /\ (UpdateIndexed(p) /\ DeletedAndRemoved(req[p].id))
            => \A d \in entriesIndex' : d.id # str(req[p].id)]_vars

\* ------------------------------------------------------ deletion of solutions
\* C29: with index calls and store writes failing independently and no operation under
\* way, every document of the solutions index has the id of a solution the store still
\* holds, and a solution whose delete_solution failed at the store still has the index
\* document it had
C29_DeletionAgrees ==
  Quiescent =>
    /\ \A d \in solutionsIndex : \E i \in SolutionIds : d.id = str(i) /\ sol_repo_get(i) # NoRow
    /\ \A p \in Procs :
         (/\ Done(p, "delete_solution")
          /\ req[p].result = "StoreError"
          /\ \E d \in pre[p].solutionsIndex : d.id = str(req[p].id))
         => \E d \in solutionsIndex : d.id = str(req[p].id)

\* ------------------------------------------------------ operations on children
ChildOps == {"add_symptom", "add_incident", "add_step", "update_step", "delete_step"}

\* C30: add_symptom, add_incident, add_step, update_step and delete_step call only the
\* store, never the index, and both indexes stay as they were when the operation began
C30_ChildOpsLeaveIndex ==
  \A p \in Procs :
    req[p].op \in ChildOps
    => /\ IndexCalls(req[p]) = <<>>
       /\ StoreCalls(req[p]) = req[p].calls
       /\ entriesIndex = pre[p].entriesIndex
       /\ solutionsIndex = pre[p].solutionsIndex

\* an add_step has succeeded and the solution's document still has the steps_text of
\* the solution without the step
C30_Witness ==
  \E p \in Procs :
    /\ Done(p, "add_step")
    /\ req[p].result = "ok"
    /\ get_solution(req[p].id).steps # <<>>
    /\ \E d \in solutionsIndex : d.id = str(req[p].id) /\ d.steps_text = ""

====
